---- MODULE Spec2Model ----
(***************************************************************************)
(* A state-machine model of the experimental type-inference pass           *)
(* (libsolidity/analysis/experimental/TypeInference.cpp).                  *)
(*                                                                         *)
(* The pass is a recursive AST walker.  The model runs it as a stack       *)
(* machine: every accept() pushes a frame, every handler is cut into       *)
(* steps at its accept()/unify() calls, and the walker's members           *)
(* (m_expressionContext, m_activeInstantiations, m_currentFunctionType,    *)
(* the annotations, the error reporter) are the state variables.           *)
(*                                                                         *)
(* The type environment, the unifier and the class registry live in other  *)
(* files of the repository (TypeSystem, TypeEnvironment, TypeSystemHelpers)*)
(* and are modelled from their contracts in the specification.             *)
(***************************************************************************)
EXTENDS Integers, Sequences, FiniteSets, TLC

(***************************************************************************)
(* Types: a unification variable or a constructor applied to arguments.    *)
(***************************************************************************)
NoType == [k |-> "none", id |-> 0, c |-> "", args |-> <<>>]

TypeVariable(i) == [k |-> "var", id |-> i, c |-> "", args |-> <<>>]

TypeConstant(c, args) == [k |-> "con", id |-> 0, c |-> c, args |-> args]

m_voidType == TypeConstant("void", <<>>)

m_wordType == TypeConstant("word", <<>>)

m_integerType == TypeConstant("integer", <<>>)

m_unitType == TypeConstant("unit", <<>>)

m_boolType == TypeConstant("bool", <<>>)

isTypeConstant(t) == t.k = "con"

functionType(argType, resultType) == TypeConstant("fn", <<argType, resultType>>)

typeFunctionType(argType, resultType) == TypeConstant("tfn", <<argType, resultType>>)

\* The 0-tuple is unit; a 1-tuple is not its element.
tupleType(elements) ==
    IF elements = <<>> THEN m_unitType ELSE TypeConstant("tuple", elements)

destTupleType(t) ==
    IF t = m_unitType THEN <<>>
    ELSE IF t.k = "con" /\ t.c = "tuple" THEN t.args
    ELSE <<t>>

\* The (argument, result) pair of a function type.
destFunctionType(t) == <<t.args[1], t.args[2]>>

SeqRange(s) == {s[i] : i \in 1..Len(s)}

(***************************************************************************)
(* The type environment: one cell per allocated variable, holding its sort *)
(* and its binding (NoType while unbound).                                 *)
(***************************************************************************)
RECURSIVE resolve(_, _)
resolve(cells, t) ==
    IF t.k = "var"
    THEN IF cells[t.id].bind.k = "none" THEN t ELSE resolve(cells, cells[t.id].bind)
    ELSE IF t.k = "con"
    THEN TypeConstant(t.c, [i \in 1..Len(t.args) |-> resolve(cells, t.args[i])])
    ELSE t

RECURSIVE typeVarsAcc(_, _)
typeVarsAcc(t, acc) ==
    IF t.k = "var"
    THEN IF t.id \in SeqRange(acc) THEN acc ELSE Append(acc, t.id)
    ELSE IF t.args = <<>> THEN acc
    ELSE typeVarsAcc(TypeConstant("tuple", Tail(t.args)), typeVarsAcc(Head(t.args), acc))

\* The free type variables of a type, in order of first occurrence.
typeVars(cells, t) == typeVarsAcc(resolve(cells, t), <<>>)

\* sort(t): a variable's stored sort; for C(args) the classes of every arity
\* of C whose argument sorts accept args.
RECURSIVE sortOf(_, _, _)
sortOf(cells, insts, t) ==
    LET r == resolve(cells, t) IN
    IF r.k = "var" THEN cells[r.id].sort
    ELSE {a.cls : a \in {x \in insts :
            /\ x.ctor = r.c
            /\ Len(x.argumentSorts) = Len(r.args)
            /\ \A i \in 1..Len(r.args) :
                  x.argumentSorts[i] \subseteq sortOf(cells, insts, r.args[i])}}

freshTypeVariable(cells, sort) == Append(cells, [sort |-> sort, bind |-> NoType])

RECURSIVE substitute(_, _)
substitute(t, map) ==
    IF t.k = "var"
    THEN IF t.id \in DOMAIN map THEN TypeVariable(map[t.id]) ELSE t
    ELSE IF t.k = "con"
    THEN TypeConstant(t.c, [i \in 1..Len(t.args) |-> substitute(t.args[i], map)])
    ELSE t

\* fresh(t): every free variable consistently renamed to a new variable that
\* carries the same sort.  Returns the extended cells and the copy.
fresh(cells, t) ==
    LET r == resolve(cells, t)
        vs == typeVarsAcc(r, <<>>)
        n == Len(cells)
        map == [v \in SeqRange(vs) |-> n + (CHOOSE j \in 1..Len(vs) : vs[j] = v)]
    IN [cells |-> cells \o [j \in 1..Len(vs) |-> [sort |-> cells[vs[j]].sort, bind |-> NoType]],
        type |-> substitute(r, map)]

Failure(kind, a, b, sort) == [kind |-> kind, a |-> a, b |-> b, sort |-> sort]

\* Binding a variable: occurs check, then the sort check; a failure is
\* recorded and leaves the variable unbound.
instantiate(st, insts, v, t) ==
    IF v.id \in SeqRange(typeVarsAcc(t, <<>>))
    THEN [st EXCEPT !.fails = Append(@, Failure("RecursiveUnification", v, t, {}))]
    ELSE LET missing == st.cells[v.id].sort \ sortOf(st.cells, insts, t) IN
         IF missing # {}
         THEN [st EXCEPT !.fails = Append(@, Failure("SortMismatch", t, NoType, missing))]
         ELSE [st EXCEPT !.cells[v.id].bind = t]

RECURSIVE unifyAcc(_, _, _, _)
unifyAcc(st, insts, a, b) ==
    LET ra == resolve(st.cells, a)
        rb == resolve(st.cells, b)
    IN
    IF ra = rb THEN st
    ELSE IF ra.k = "var" /\ rb.k = "var"
    THEN [st EXCEPT !.cells[ra.id].bind = rb,
                    !.cells[rb.id].sort = @ \cup st.cells[ra.id].sort]
    ELSE IF ra.k = "var" THEN instantiate(st, insts, ra, rb)
    ELSE IF rb.k = "var" THEN instantiate(st, insts, rb, ra)
    ELSE IF ra.c # rb.c \/ Len(ra.args) # Len(rb.args)
    THEN [st EXCEPT !.fails = Append(@, Failure("TypeMismatch", ra, rb, {}))]
    ELSE IF ra.args = <<>> THEN st
    ELSE unifyAcc(unifyAcc(st, insts, Head(ra.args), Head(rb.args)), insts,
                  TypeConstant("tuple", Tail(ra.args)), TypeConstant("tuple", Tail(rb.args)))

\* TypeEnvironment::unify: structural unification returning the extended
\* cells and the list of failures instead of throwing.
envUnify(cells, insts, a, b) == unifyAcc([cells |-> cells, fails |-> <<>>], insts, a, b)

(***************************************************************************)
(* The input: a name-resolved syntax tree.  A program is described by a    *)
(* small record (prog); a node's identity is a pair <<owner, part>> and    *)
(* Node(n) gives the node.                                                 *)
(*                                                                         *)
(*   <<"unit", 0>>     the SourceUnit; prog.top lists its children         *)
(*   <<"K", 0..2>>     class K, its type variable, the variable's sort     *)
(*   <<"K2", 0..1>>    class K2 and its type variable                      *)
(*   <<"I1", 0>>, <<"I2", 0>>   the two instantiations                     *)
(*   <<"T", 0..1>>     type definition T, its underlying type expression   *)
(*   <<"F", p>>, <<"G", p>>     the free functions F and G                 *)
(*   <<"M1", p>>, <<"M2", p>>   the function of I1, the function of I2     *)
(*   <<"KM", p>>       the function of class K                             *)
(*   <<"KM2", p>>      the same function declared a second time in K       *)
(*   <<"X", 0>>        an import directive                                 *)
(*                                                                         *)
(* The parts of a function: 0 the definition, 1 parameter list,            *)
(* 2 parameter, 3 its type, 4 return list, 5/7 return parameters, 6/8      *)
(* their types, 9 body, 10 return statement, 11 its expression, 12/13 the  *)
(* components when the expression is a tuple, 14/15 the sides when the     *)
(* parameter's type is a binary operation.                                 *)
(***************************************************************************)
VARIABLES
    prog,                   \* the source unit, as its description
    ast                     \* the source unit's AST: node id -> node

NoNode == <<"", 0>>

Id(owner) == <<owner, 0>>

FunctionOwners == {"F", "G", "M1", "M2", "KM"}

N(kind, name, kids, x, y, z, ctor, tok) ==
    [kind |-> kind, name |-> name, kids |-> kids, x |-> x, y |-> y, z |-> z,
     ctor |-> ctor, tok |-> tok]

FnDesc(b) ==
    CASE b = "F" -> prog.F
      [] b = "G" -> prog.G
      [] b = "M1" -> prog.M1
      [] b = "M2" -> prog.M2
      [] OTHER -> prog.KM

\* A type expression: an elementary type name, a name referring to the type
\* variable of class K, a name without a referenced declaration, the name
\* of the function G, or a path, without a referenced declaration or
\* referring to the type definition T.
TypeExprNode(t) ==
    IF t = "cvar" THEN N("Identifier", "a", <<>>, <<"K", 1>>, NoNode, NoNode, "", "")
    ELSE IF t = "free" THEN N("Identifier", "b", <<>>, NoNode, NoNode, NoNode, "", "")
    ELSE IF t = "fname" THEN N("Identifier", "g", <<>>, Id("G"), NoNode, NoNode, "", "")
    ELSE IF t = "path" THEN N("IdentifierPath", "c", <<>>, NoNode, NoNode, NoNode, "", "")
    ELSE IF t = "pathT" THEN N("IdentifierPath", "T", <<>>, Id("T"), NoNode, NoNode, "", "")
    ELSE N("ElementaryTypeNameExpression", t, <<>>, NoNode, NoNode, NoNode,
           IF t = "unregistered" THEN "" ELSE t, "")

\* A literal: its token, and for a number the parts of its text: "0x" or
\* not, the digits before the radix point, the digits after it, the sign
\* and the digits of the exponent, and the sub-denomination.  A character
\* is its value as a digit (a..f are 10..15).
Lit(tok, hex, whole, radix, frac, sci, neg, exp, sub) ==
    [tok |-> tok, hex |-> hex, whole |-> whole, radix |-> radix, frac |-> frac,
     sci |-> sci, neg |-> neg, exp |-> exp, sub |-> sub]

\* the literal 1
One == Lit("Number", FALSE, <<1>>, FALSE, <<>>, FALSE, FALSE, <<>>, "")

\* A component of a return expression: the parameter, the number literal 1,
\* the literal of the program, a sum (its operator is what the walker looks
\* at), or a name referring to a top-level declaration.
AtomNode(b, a) ==
    CASE a = "p" -> N("Identifier", "x", <<>>, <<b, 2>>, NoNode, NoNode, "", "")
      [] a = "lit" -> N("Literal", "1", <<>>, NoNode, NoNode, NoNode, "", "Number")
      [] a = "L" -> N("Literal", "L", <<>>, NoNode, NoNode, NoNode, "", prog.L.tok)
      [] a = "sum" -> N("BinaryOperation", "sum", <<>>, NoNode, NoNode, NoNode, "", "+")
      [] a = "free" -> N("Identifier", "b", <<>>, NoNode, NoNode, NoNode, "", "")
      [] a = "path" -> N("IdentifierPath", "c", <<>>, NoNode, NoNode, NoNode, "", "")
      [] OTHER -> N("Identifier", a, <<>>, Id(a), NoNode, NoNode, "", "")

FunctionNode(b, o) ==
    LET d == FnDesc(b)
        \* the i-th of a list of names, "" past its end
        at(names, i) == IF i \in DOMAIN names THEN names[i] ELSE ""
        \* a parameter type that is a binary operation: its operator, its
        \* left side and its right side
        binary == CASE d.par = "word:1" -> <<":", "word", "lit">>
                    [] d.par = "word:K" -> <<":", "word", "K">>
                    [] d.par = "word->bool" -> <<"->", "word", "bool">>
                    [] d.par = "word+bool" -> <<"+", "word", "bool">>
                    [] OTHER -> <<"", "", "">>
    IN
    CASE o = 0 -> N("FunctionDefinition", d.name, <<>>, <<b, 1>>,
                    IF d.ret = <<>> THEN NoNode ELSE <<b, 4>>,
                    IF d.body = "unimplemented" THEN NoNode ELSE <<b, 9>>, "", "")
      [] o = 1 -> N("ParameterList", "", IF d.par = "none" THEN <<>> ELSE << <<b, 2>> >>,
                    NoNode, NoNode, NoNode, "", "")
      [] o = 2 -> N("VariableDeclaration", "x", <<>>,
                    IF d.par = "untyped" THEN NoNode ELSE <<b, 3>>, NoNode, NoNode, "", "")
      [] o = 3 -> IF binary[1] # ""
                  THEN N("BinaryOperation", d.par, <<>>, <<b, 14>>, <<b, 15>>, NoNode, "", binary[1])
                  ELSE TypeExprNode(d.par)
      [] o = 4 -> N("ParameterList", "",
                    IF Len(d.ret) = 1 THEN << <<b, 5>> >> ELSE << <<b, 5>>, <<b, 7>> >>,
                    NoNode, NoNode, NoNode, "", "")
      [] o = 5 -> N("VariableDeclaration", "r", <<>>, <<b, 6>>, NoNode, NoNode, "", "")
      [] o = 6 -> TypeExprNode(at(d.ret, 1))
      [] o = 7 -> N("VariableDeclaration", "s", <<>>, <<b, 8>>, NoNode, NoNode, "", "")
      [] o = 8 -> TypeExprNode(at(d.ret, 2))
      [] o = 9 -> N("Block", "", IF d.body = "empty" THEN <<>> ELSE << <<b, 10>> >>,
                    NoNode, NoNode, NoNode, "", "")
      [] o = 10 -> N("Return", "", <<>>, IF d.expr = <<>> THEN NoNode ELSE <<b, 11>>,
                     NoNode, NoNode, "", "")
      [] o = 11 -> IF ~d.tuple THEN AtomNode(b, at(d.expr, 1))
                   ELSE N("TupleExpression", "",
                          IF Len(d.expr) = 1 THEN << <<b, 12>> >> ELSE << <<b, 12>>, <<b, 13>> >>,
                          NoNode, NoNode, NoNode, "", "")
      [] o = 12 -> AtomNode(b, at(d.expr, 1))
      [] o = 13 -> AtomNode(b, at(d.expr, 2))
      [] o = 14 -> TypeExprNode(binary[2])
      [] OTHER -> IF binary[1] = ":" THEN AtomNode(b, binary[3]) ELSE TypeExprNode(binary[3])

\* An instantiation names its class by a path (d.cls is the owner of the
\* referenced declaration: "K", or "T" for a name that is no class) or by a
\* token.
InstNode(d, fn) ==
    N("TypeClassInstantiation", "", IF d.method THEN <<Id(fn)>> ELSE <<>>,
      IF d.cls \in {"K", "T"} THEN Id(d.cls) ELSE NoNode,
      NoNode, NoNode, d.ctor, IF d.cls \in {"K", "T"} THEN "" ELSE d.cls)

SourceNode(n) ==
    CASE n = Id("unit") -> N("SourceUnit", "", prog.top, NoNode, NoNode, NoNode, "", "")
      [] n = Id("K") -> N("TypeClassDefinition", prog.K.name,
                          IF ~prog.K.method THEN <<>>
                          ELSE IF prog.again THEN <<Id("KM"), Id("KM2")>> ELSE <<Id("KM")>>,
                          <<"K", 1>>, NoNode, NoNode, prog.K.ctor, "")
      [] n = <<"K", 1>> -> N("VariableDeclaration", "a", <<>>,
                             IF prog.K.sorted THEN <<"K", 2>> ELSE NoNode, NoNode, NoNode, "", "")
      [] n = <<"K", 2>> -> IF prog.unbound # "" THEN N(prog.unbound, "c", <<>>, NoNode, NoNode, NoNode, "", "")
                           ELSE N("Identifier", "K2", <<>>, Id("K2"), NoNode, NoNode, "", "")
      [] n = Id("K2") -> N("TypeClassDefinition", "K2", <<>>, <<"K2", 1>>, NoNode, NoNode, "K2", "")
      [] n = <<"K2", 1>> -> N("VariableDeclaration", "b", <<>>, NoNode, NoNode, NoNode, "", "")
      [] n = Id("I1") -> InstNode(prog.I1, "M1")
      [] n = Id("I2") -> InstNode(prog.I2, "M2")
      [] n = Id("T") -> N("TypeDefinition", "T", <<>>, NoNode,
                          IF prog.T.underlying THEN <<"T", 1>> ELSE NoNode, NoNode, prog.T.ctor, "")
      [] n = <<"T", 1>> -> TypeExprNode("word")
      [] n = Id("X") -> N("ImportDirective", "X", <<>>, NoNode, NoNode, NoNode, "", "")
      [] OTHER -> FunctionNode(n[1], n[2])

\* The ids of the nodes of a source unit.
NodeIds ==
    ({"unit", "K", "K2", "I1", "I2", "T", "X", "KM2"} \cup FunctionOwners) \X (0 .. 15)

\* The node with id n.
Node(n) == ast[n]

\* Accessors named after the AST's.
parameterList(n) == Node(n).x
returnParameterList(n) == Node(n).y
body(n) == Node(n).z
isImplemented(n) == Node(n).z # NoNode
typeExpression(n) == IF Node(n).kind = "TypeDefinition" THEN Node(n).y ELSE Node(n).x
expression(n) == Node(n).x
referencedDeclaration(n) == Node(n).x
typeVariable(n) == Node(n).x
subNodes(n) == Node(n).kids
argumentSorts(n) == Node(n).y
arguments(n) == Node(n).x

(***************************************************************************)
(* What the registration pass (TypeRegistration) hands over.               *)
(***************************************************************************)
\* annotation<TypeRegistration>(node).typeConstructor; "" when none.
registeredTypeConstructor(n) == Node(n).ctor

builtinClassFromToken(tok) ==
    CASE tok = "Integer" -> "integer"
      [] tok = "Mul" -> "*"
      [] OTHER -> ""

\* The built-in classes are declared by the registration pass before the
\* walk; their class identities are 1 and 2.
BuiltinClassTable ==
    << [name |-> "integer", decl |-> NoNode, var |-> NoType, functions |-> <<>>, required |-> {"fromInteger"}],
       [name |-> "*", decl |-> NoNode, var |-> NoType, functions |-> <<>>, required |-> {"mul"}] >>

builtinClasses(name) == CHOOSE c \in 1..Len(BuiltinClassTable) : BuiltinClassTable[c].name = name

TopInstantiations == {n \in SeqRange(prog.top) : Node(n).kind = "TypeClassInstantiation"}

\* typeClassInstantiations(class)[constructor], NoNode when there is none:
\* the instantiation nodes of the source, keyed by class declaration (user
\* classes) or by class name (built-in classes) and by type constructor.
instantiationFor(classTable, cls, ctor) ==
    LET c == classTable[cls]
        found == {n \in TopInstantiations :
                    /\ registeredTypeConstructor(n) = ctor
                    /\ IF c.decl # NoNode
                       THEN referencedDeclaration(n) = c.decl
                       ELSE referencedDeclaration(n) = NoNode
                            /\ builtinClassFromToken(Node(n).tok) = c.name}
    IN IF found = {} THEN NoNode ELSE CHOOSE n \in found : TRUE

\* The order of the type constructors (the key order of the instantiation maps).
constructorIndex(ctor) ==
    CASE ctor = "bool" -> 1
      [] ctor = "word" -> 2
      [] OTHER -> 3

RECURSIVE inKeyOrder(_)
inKeyOrder(nodes) ==
    IF nodes = {} THEN <<>>
    ELSE LET n == CHOOSE x \in nodes : \A y \in nodes :
                      constructorIndex(registeredTypeConstructor(x)) <= constructorIndex(registeredTypeConstructor(y))
         IN <<n>> \o inKeyOrder(nodes \ {n})

\* annotation<TypeRegistration>(classDefinition).instantiations, in key order.
instantiationsOfDefinition(decl) ==
    inKeyOrder({n \in TopInstantiations :
                  referencedDeclaration(n) = decl /\ registeredTypeConstructor(n) # ""})

(***************************************************************************)
(* The walker's state.                                                     *)
(***************************************************************************)
VARIABLES
    stack,                  \* the C++ call stack: one frame per accept()/unify() in progress
    m_expressionContext,    \* "Term", "Type" or "Sort"
    m_activeInstantiations, \* set of TypeClassInstantiation nodes
    m_currentFunctionType,  \* optional<Type>: NoType is nullopt
    annotationType,         \* annotation(node).type of the nodes that have one
    annotationTypeClass,    \* annotation(classDefinition).typeClass of those that have one
    members,                \* annotation().members: constructor -> name -> member type
    env,                    \* the type environment's cells
    instances,              \* the instance table: arities registered by instantiateClass
    classes,                \* the class table
    errors,                 \* the diagnostics of the error reporter, in order
    status,                 \* "running", "done", "fatal" (fatalTypeError thrown), "assert" (solAssert failed)
    result,                 \* what analyze returned
    lastUnify,              \* history: the unify call that returned last
    firstVisit,             \* history: the first visit of each instantiation
    earlyReturns,           \* history: the definitions a visit found annotated
    executed,               \* history: how often the body of a class definition or instantiation began
    steps                   \* history: the number of steps taken

vars == <<prog, ast, stack, m_expressionContext, m_activeInstantiations, m_currentFunctionType,
          annotationType, annotationTypeClass, members, env, instances, classes,
          errors, status, result, lastUnify, firstVisit, earlyReturns, executed,
          steps>>

\* The state as one record, so that a handler step is a function on it.
M == [stack |-> stack, ctx |-> m_expressionContext, active |-> m_activeInstantiations,
      cur |-> m_currentFunctionType, ann |-> annotationType, annClass |-> annotationTypeClass,
      members |-> members, env |-> env, instances |-> instances, classes |-> classes,
      errors |-> errors, status |-> status, result |-> result, lastUnify |-> lastUnify,
      firstVisit |-> firstVisit, early |-> earlyReturns, executed |-> executed]

Becomes(m) ==
    /\ stack' = m.stack
    /\ m_expressionContext' = m.ctx
    /\ m_activeInstantiations' = m.active
    /\ m_currentFunctionType' = m.cur
    /\ annotationType' = m.ann
    /\ annotationTypeClass' = m.annClass
    /\ members' = m.members
    /\ env' = m.env
    /\ instances' = m.instances
    /\ classes' = m.classes
    /\ errors' = m.errors
    /\ status' = m.status
    /\ result' = m.result
    /\ lastUnify' = m.lastUnify
    /\ firstVisit' = m.firstVisit
    /\ earlyReturns' = m.early
    /\ executed' = m.executed
    /\ steps' = steps + 1
    /\ prog' = prog
    /\ ast' = ast

NoFailure == Failure("", NoType, NoType, {})

\* What is kept of a unify call: its location, the active instantiations and
\* the annotated instantiations when it was called, the number of errors
\* before and after it, the failures of its first and second unification,
\* the instantiations it visited and the diagnostics it reported.
NoUnify == [loc |-> NoNode, active |-> {}, typed |-> {}, before |-> 0, after |-> 0,
            first |-> <<>>, second |-> <<>>, runs |-> 0,
            visited |-> <<>>, reported |-> <<>>, recursion |-> FALSE]

Frame(n) ==
    [op |-> "visit", node |-> n, pc |-> "start", i |-> 1, ta |-> NoType, tb |-> NoType,
     sctx |-> "", sact |-> {}, scur |-> NoType, fts |-> <<>>, cls |-> 0, list |-> <<>>,
     sorts |-> <<>>, u |-> NoUnify, ectx |-> "Term", eact |-> {}]

UnifyFrame(a, b, loc) == [Frame(loc) EXCEPT !.op = "unify", !.ta = a, !.tb = b]

Top(m) == m.stack[Len(m.stack)]

\* return from the handler
pop(m) == [m EXCEPT !.stack = SubSeq(@, 1, Len(@) - 1)]

\* stay in the handler, at frame f
goto(m, f) == [m EXCEPT !.stack[Len(m.stack)] = f]

\* accept()/unify(): continue at frame f once the callee g has returned;
\* history: the callee's frame keeps the expression context and the active
\* instantiations it is entered with (ectx, eact)
call(m, f, g) ==
    [m EXCEPT !.stack = Append([@ EXCEPT ![Len(m.stack)] = f],
                               [g EXCEPT !.ectx = m.ctx, !.eact = m.active])]

Diagnostic(msg, loc, ssl, failure) == [msg |-> msg, loc |-> loc, ssl |-> ssl, failure |-> failure]

typeError(m, loc, msg) == [m EXCEPT !.errors = Append(@, Diagnostic(msg, loc, {}, NoFailure))]

\* A fatal error that is reported like any other.
reportedOnly(m, loc, msg) == [m EXCEPT !.errors = Append(@, Diagnostic(msg, loc, {}, NoFailure))]

\* fatalTypeError reports and throws: the pass is over.
fatalTypeError(m, loc, msg) ==
    [m EXCEPT !.errors = Append(@, Diagnostic(msg, loc, {}, NoFailure)), !.status = "fatal"]

\* A failed solAssert throws an internal compiler error.
solAssertFailed(m) == [m EXCEPT !.status = "assert"]

hasType(m, n) == n \in DOMAIN m.ann

\* history: the visit of n found n annotated
foundAnnotated(m, n) == [m EXCEPT !.early = @ \cup {n}]

\* history: the visit of n did not return early and begins its body
execute(m, n) ==
    [m EXCEPT !.executed = (n :> (IF n \in DOMAIN @ THEN @[n] + 1 ELSE 1)) @@ @]

\* "if (annotation.type) return false;"
returnEarly(m, n) == pop(foundAnnotated(m, n))

annotate(m, n, t) == [m EXCEPT !.ann = (n :> t) @@ @]

\* m_typeSystem.freshTypeVariable(sort): the variable is TypeVariable(Len(m.env) + 1)
withFreshVariable(m, sort) == [m EXCEPT !.env = freshTypeVariable(@, sort)]

newestVariable(m) == TypeVariable(Len(m.env))

\* annotation := freshTypeVariable(sort)
annotateFresh(m, n, sort) ==
    LET m1 == withFreshVariable(m, sort) IN annotate(m1, n, newestVariable(m1))

Kind(m) == Node(Top(m).node).kind

getType(m, n) == m.ann[n]

(***************************************************************************)
(* SourceUnit, Block: visit returns true and the children are accepted in  *)
(* order.                                                                  *)
(***************************************************************************)
visitChildrenStep(m) ==
    LET f == Top(m)
        kids == Node(f.node).kids
    IN IF f.i <= Len(kids)
       THEN call(m, [f EXCEPT !.i = @ + 1], Frame(kids[f.i]))
       ELSE pop(m)

(***************************************************************************)
(* visit(FunctionDefinition)                                               *)
(***************************************************************************)
\* A return that leaves the current function type as the visit set it.
signatureKept(m, f) == m

\* signatureRestore goes out of scope: m_currentFunctionType is what it was
\* when the visit began
signatureRestore(m, f) == [m EXCEPT !.cur = f.scur]

visitFunctionDefinitionStep(m) ==
    LET f == Top(m)
        n == f.node
    IN
    CASE f.pc = "start" ->
           IF m.ctx # "Term" THEN solAssertFailed(m)
           ELSE IF hasType(m, n) THEN returnEarly(m, n)
           ELSE call([m EXCEPT !.cur = NoType],
                     [f EXCEPT !.pc = "params", !.scur = m.cur], Frame(parameterList(n)))
      [] f.pc = "params" ->
           IF returnParameterList(n) # NoNode
           THEN call(m, [f EXCEPT !.pc = "returns"], Frame(returnParameterList(n)))
           ELSE goto(m, [f EXCEPT !.pc = "returns"])
      [] f.pc = "returns" ->
           IF ~hasType(m, parameterList(n))
              \/ (returnParameterList(n) # NoNode /\ ~hasType(m, returnParameterList(n)))
           THEN solAssertFailed(m)
           ELSE LET ft == functionType(
                            getType(m, parameterList(n)),
                            IF returnParameterList(n) # NoNode
                            THEN getType(m, returnParameterList(n)) ELSE m_unitType)
                    m1 == [m EXCEPT !.cur = ft]
                IN IF isImplemented(n)
                   THEN call(m1, [f EXCEPT !.pc = "body", !.ta = ft], Frame(body(n)))
                   ELSE goto(m1, [f EXCEPT !.pc = "body", !.ta = ft])
      [] OTHER ->
           \* functionAnnotation.type = functionType;
           pop(signatureRestore(annotate(m, n, f.ta), f))

(***************************************************************************)
(* Return: the expression is visited, then endVisit(Return).               *)
(***************************************************************************)
visitReturnStep(m) ==
    LET f == Top(m)
        n == f.node
    IN
    CASE f.pc = "start" ->
           IF expression(n) # NoNode
           THEN call(m, [f EXCEPT !.pc = "end"], Frame(expression(n)))
           ELSE goto(m, [f EXCEPT !.pc = "end"])
      [] f.pc = "end" ->
           IF m.cur = NoType THEN solAssertFailed(m)
           ELSE IF expression(n) # NoNode /\ ~hasType(m, expression(n)) THEN solAssertFailed(m)
           ELSE LET functionReturnType == destFunctionType(m.cur)[2] IN
                call(m, [f EXCEPT !.pc = "unified"],
                     UnifyFrame(functionReturnType,
                                IF expression(n) # NoNode THEN getType(m, expression(n)) ELSE m_unitType,
                                n))
      [] OTHER -> pop(m)

(***************************************************************************)
(* ParameterList: the parameters are visited, then endVisit(ParameterList).*)
(***************************************************************************)
visitParameterListStep(m) ==
    LET f == Top(m)
        n == f.node
        kids == Node(n).kids
    IN IF f.i <= Len(kids)
       THEN call(m, [f EXCEPT !.i = @ + 1], Frame(kids[f.i]))
       ELSE IF hasType(m, n) \/ \E j \in 1..Len(kids) : ~hasType(m, kids[j])
       THEN solAssertFailed(m)
       ELSE pop(annotate(m, n, tupleType([j \in 1..Len(kids) |-> getType(m, kids[j])])))

(***************************************************************************)
(* visit(VariableDeclaration)                                              *)
(***************************************************************************)
visitVariableDeclarationStep(m) ==
    LET f == Top(m)
        n == f.node
        te == typeExpression(n)
    IN
    CASE f.pc = "start" ->
           IF hasType(m, n) THEN solAssertFailed(m)
           ELSE IF m.ctx = "Term"
           THEN IF te # NoNode
                THEN call([m EXCEPT !.ctx = "Type"],
                          [f EXCEPT !.pc = "typed", !.sctx = m.ctx], Frame(te))
                ELSE pop(annotateFresh(m, n, {}))
           ELSE IF m.ctx = "Type"
           THEN LET m1 == annotateFresh(m, n, {}) IN
                IF te # NoNode
                THEN call([m1 EXCEPT !.ctx = "Sort"],
                          [f EXCEPT !.pc = "sorted", !.sctx = m.ctx], Frame(te))
                ELSE pop(m1)
           ELSE pop(annotateFresh(typeError(m, n, "Variable declaration in sort context."), n, {}))
      [] f.pc = "typed" ->
           IF ~hasType(m, te) THEN solAssertFailed(m)
           ELSE pop([annotate(m, n, getType(m, te)) EXCEPT !.ctx = f.sctx])
      [] f.pc = "sorted" ->
           IF ~hasType(m, te) THEN solAssertFailed(m)
           ELSE call(m, [f EXCEPT !.pc = "unified"], UnifyFrame(getType(m, n), getType(m, te), te))
      [] OTHER -> pop([m EXCEPT !.ctx = f.sctx])

(***************************************************************************)
(* visit(ElementaryTypeNameExpression); the elementary constructors of     *)
(* the inputs take no arguments.                                           *)
(***************************************************************************)
visitElementaryTypeNameExpressionStep(m) ==
    LET n == Top(m).node IN
    IF hasType(m, n) THEN solAssertFailed(m)
    ELSE IF m.ctx # "Type"
    THEN pop(annotateFresh(
               typeError(m, n, "Elementary type name expression only supported in type context."), n, {}))
    ELSE IF registeredTypeConstructor(n) # ""
    THEN pop(annotate(m, n, TypeConstant(registeredTypeConstructor(n), <<>>)))
    ELSE pop(annotateFresh(
               typeError(m, n, "No type constructor registered for elementary type name."), n, {}))

(***************************************************************************)
(* visit(BinaryOperation)                                                  *)
(***************************************************************************)
\* annotation<TypeRegistration>().operators[token]: the class function an
\* operator is registered to; class 0 when there is none.
operators(tok) ==
    IF tok = "*" THEN [class |-> builtinClasses("*"), name |-> "mul"] ELSE [class |-> 0, name |-> ""]

\* m_env->typeClassFunction(class, name); NoType is nullopt
typeClassFunction(classTable, class, name) ==
    LET fts == classTable[class].functions IN
    IF \E j \in 1..Len(fts) : fts[j].name = name
    THEN fts[CHOOSE j \in 1..Len(fts) : fts[j].name = name].type
    ELSE NoType

visitBinaryOperationStep(m) ==
    LET f == Top(m)
        n == f.node
        left == Node(n).x
        right == Node(n).y
        op == Node(n).tok
        operatorInfo == operators(op)
        sidesTyped == hasType(m, left) /\ hasType(m, right)
    IN
    CASE f.pc = "start" ->
           IF hasType(m, n) THEN solAssertFailed(m)
           ELSE IF m.ctx = "Term"
           THEN IF operatorInfo.class # 0
                THEN LET ft == typeClassFunction(m.classes, operatorInfo.class, operatorInfo.name) IN
                     IF ft = NoType THEN solAssertFailed(m)
                     ELSE call(m, [f EXCEPT !.pc = "left", !.ta = ft], Frame(left))
                ELSE pop(annotateFresh(
                           typeError(m, n, "Binary operation in term context not yet supported."), n, {}))
           ELSE IF m.ctx = "Type"
           THEN IF op = ":" THEN call(m, [f EXCEPT !.pc = "ascribed"], Frame(left))
                ELSE IF op = "->" THEN call(m, [f EXCEPT !.pc = "domain"], Frame(left))
                ELSE pop(annotateFresh(
                           typeError(m, n, "Invalid binary operations in type context."), n, {}))
           ELSE pop(annotateFresh(typeError(m, n, "Invalid binary operation in sort context."), n, {}))
      [] f.pc = "left" -> call(m, [f EXCEPT !.pc = "right"], Frame(right))
      [] f.pc = "right" ->
           IF ~sidesTyped THEN solAssertFailed(m)
           ELSE LET m1 == withFreshVariable(m, {})
                    genericFunctionType ==
                        functionType(tupleType(<<getType(m, left), getType(m, right)>>), newestVariable(m1))
                IN call(m1, [f EXCEPT !.pc = "operator", !.tb = genericFunctionType],
                        UnifyFrame(f.ta, genericFunctionType, n))
      [] f.pc = "operator" ->
           pop(annotate(m, n, resolve(m.env, destFunctionType(resolve(m.env, f.tb))[2])))
      [] f.pc = "ascribed" ->
           call([m EXCEPT !.ctx = "Sort"], [f EXCEPT !.pc = "sort", !.sctx = m.ctx], Frame(right))
      [] f.pc = "sort" ->
           LET m1 == [m EXCEPT !.ctx = f.sctx] IN
           IF ~sidesTyped THEN solAssertFailed(m1)
           ELSE call(m1, [f EXCEPT !.pc = "unified"], UnifyFrame(getType(m, left), getType(m, right), n))
      [] f.pc = "unified" -> pop(annotate(m, n, getType(m, left)))
      [] f.pc = "domain" -> call(m, [f EXCEPT !.pc = "codomain"], Frame(right))
      [] OTHER ->
           IF ~sidesTyped THEN solAssertFailed(m)
           ELSE pop(annotate(m, n, functionType(getType(m, left), getType(m, right))))

(***************************************************************************)
(* Rational parsing.  A bigint is kept as m * 10^z (a record [m, z]), a    *)
(* rational as a bigint numerator over a denominator, in lowest terms;     *)
(* nullopt is NoValue.                                                     *)
(***************************************************************************)
NoValue == [num |-> [m |-> 0, z |-> 0], den |-> 0]

\* bigint(string) for a string of digits in the base
RECURSIVE bigint(_, _)
bigint(digits, base) ==
    IF digits = <<>> THEN 0
    ELSE base * bigint(SubSeq(digits, 1, Len(digits) - 1), base) + digits[Len(digits)]

RECURSIVE pow10(_)
pow10(k) == IF k = 0 THEN 1 ELSE 10 * pow10(k - 1)

RECURSIVE gcd(_, _)
gcd(a, b) == IF b = 0 THEN a ELSE gcd(b, a % b)

\* rational(n, d): the fraction in lowest terms
rational(n, d) == [num |-> [m |-> n \div gcd(n, d), z |-> 0], den |-> d \div gcd(n, d)]

\* parseRational of the text whole[.frac]
parseRational(whole, radix, frac) ==
    LET isDigit(c) == c < 10
        \* find_if_not(..., a == '0')
        RECURSIVE fractionalBegin(_)
        fractionalBegin(digits) ==
            IF digits # <<>> /\ Head(digits) = 0 THEN fractionalBegin(Tail(digits)) ELSE digits
    IN
    IF radix
    THEN IF \E c \in SeqRange(whole) \cup SeqRange(frac) : ~isDigit(c) THEN NoValue
         ELSE rational(bigint(whole, 10) * pow10(Len(frac)) + bigint(fractionalBegin(frac), 10),
                       pow10(Len(frac)))
    ELSE IF \E c \in SeqRange(whole) : ~isDigit(c) THEN NoValue
    ELSE rational(bigint(whole, 10), 1)

\* value *= factor, for the bigint factor.m * 10^factor.z
times(v, factor) ==
    LET timesTen(w) ==
            IF w.den % 10 = 0 THEN [w EXCEPT !.den = @ \div 10]
            ELSE IF w.den % 2 = 0 THEN [w EXCEPT !.den = @ \div 2, !.num.m = @ * 5]
            ELSE IF w.den % 5 = 0 THEN [w EXCEPT !.den = @ \div 5, !.num.m = @ * 2]
            ELSE [w EXCEPT !.num.z = @ + 1]
        RECURSIVE timesPow10(_, _)
        timesPow10(w, k) == IF k = 0 THEN w ELSE timesPow10(timesTen(w), k - 1)
        g == gcd(v.den, factor.m)
    IN timesPow10([v EXCEPT !.den = @ \div g, !.num.m = @ * (factor.m \div g)], factor.z)

\* value /= pow(10, k), for a value that is not zero
over(v, k) ==
    LET overTen(w) ==
            IF w.num.z > 0 THEN [w EXCEPT !.num.z = @ - 1]
            ELSE IF w.num.m % 10 = 0 THEN [w EXCEPT !.num.m = @ \div 10]
            ELSE IF w.num.m % 2 = 0 THEN [w EXCEPT !.num.m = @ \div 2, !.den = @ * 5]
            ELSE IF w.num.m % 5 = 0 THEN [w EXCEPT !.num.m = @ \div 5, !.den = @ * 2]
            ELSE [w EXCEPT !.den = @ * 10]
        RECURSIVE overPow10(_, _)
        overPow10(w, j) == IF j = 0 THEN w ELSE overPow10(overTen(w), j - 1)
    IN overPow10(v, k)

\* The digits of numeric_limits<int32_t>::max() and of -min().
Int32Max == <<2, 1, 4, 7, 4, 8, 3, 6, 4, 7>>

Int32Min == <<2, 1, 4, 7, 4, 8, 3, 6, 4, 8>>

\* "exp > numeric_limits<int32_t>::max() || exp < numeric_limits<int32_t>::min()"
outsideInt32(neg, exp) ==
    LET \* a > b for two strings of decimal digits without leading zeros
        RECURSIVE greater(_, _)
        greater(a, b) ==
            IF Len(a) # Len(b) THEN Len(a) > Len(b)
            ELSE IF a = <<>> THEN FALSE
            ELSE IF Head(a) # Head(b) THEN Head(a) > Head(b)
            ELSE greater(Tail(a), Tail(b))
    IN IF neg THEN greater(exp, Int32Min) ELSE greater(exp, Int32Max)

\* fitsPrecisionBaseX with 4096 bits: the bits of the mantissa plus
\* log2(10) * exponent, in thousandths of a bit; no exponent above 4096 fits.
fitsPrecisionBase10(mantissa, expBase10) ==
    LET bitsMax == 4096
        log2Of10AwayFromZero == 3322
        RECURSIVE bitLength(_)
        bitLength(n) == IF n = 0 THEN 0 ELSE 1 + bitLength(n \div 2)
    IN \/ mantissa = 0
       \/ /\ expBase10 <= bitsMax
          /\ bitLength(mantissa) * 1000 + log2Of10AwayFromZero * expBase10 <= bitsMax * 1000

\* A sub-denomination factor of sixty for a minute, written as six.
unitFactorWithShortMinute(sub) ==
    CASE sub = "gwei" -> [m |-> 1, z |-> 9]
      [] sub = "ether" -> [m |-> 1, z |-> 18]
      [] sub = "minutes" -> [m |-> 6, z |-> 0]
      [] sub = "hours" -> [m |-> 36, z |-> 2]
      [] sub = "days" -> [m |-> 864, z |-> 2]
      [] sub = "weeks" -> [m |-> 6048, z |-> 2]
      [] sub = "years" -> [m |-> 31536, z |-> 3]
      [] OTHER -> [m |-> 1, z |-> 0]

\* The factor of the switch over subDenomination(): 10^9, 10^18, 60, 3600,
\* 86400, 604800, 31536000, and 1 for none, wei and seconds.
subDenominationFactor(sub) ==
    CASE sub = "gwei" -> [m |-> 1, z |-> 9]
      [] sub = "ether" -> [m |-> 1, z |-> 18]
      [] sub = "minutes" -> [m |-> 6, z |-> 1]
      [] sub = "hours" -> [m |-> 36, z |-> 2]
      [] sub = "days" -> [m |-> 864, z |-> 2]
      [] sub = "weeks" -> [m |-> 6048, z |-> 2]
      [] sub = "years" -> [m |-> 31536, z |-> 3]
      [] OTHER -> [m |-> 1, z |-> 0]

\* The value of the text before the sub-denomination is applied.
scaledValue(l) ==
    LET \* find(valueString, 'e'): the exponent mark or a hexadecimal digit e
        expPoint == l.sci \/ 14 \in SeqRange(l.whole)
        mantissa == parseRational(l.whole, l.radix, l.frac)
        expAbs == bigint(l.exp, 10)
    IN
    IF l.hex THEN rational(bigint(l.whole, 16), 1)
    ELSE IF expPoint
    THEN IF mantissa = NoValue THEN NoValue
         ELSE IF mantissa.num.m = 0 THEN NoValue
         ELSE IF outsideInt32(l.neg, l.exp) THEN NoValue
         ELSE IF l.neg /\ expAbs > 0
         THEN IF ~fitsPrecisionBase10(mantissa.den, expAbs) THEN NoValue
              ELSE over(mantissa, expAbs)
         ELSE IF expAbs > 0
         THEN IF ~fitsPrecisionBase10(mantissa.num.m, expAbs) THEN NoValue
              ELSE times(mantissa, [m |-> 1, z |-> expAbs])
         ELSE mantissa
    ELSE mantissa

rationalValue(l) ==
    LET value == scaledValue(l) IN
    IF value = NoValue THEN NoValue ELSE times(value, subDenominationFactor(l.sub))

\* _literal.token(), valueWithoutUnderscores(), subDenomination()
literal(n) == IF Node(n).name = "L" THEN prog.L ELSE One

(***************************************************************************)
(* visit(Literal)                                                          *)
(***************************************************************************)
visitLiteralStep(m) ==
    LET n == Top(m).node
        value == rationalValue(literal(n))
    IN
    IF Node(n).tok # "Number"
    THEN pop(typeError(m, n, "Only number literals are supported."))
    ELSE IF value = NoValue
    THEN pop(typeError(m, n, "Invalid number literals."))
    ELSE IF value.den # 1
    THEN pop(typeError(m, n, "Only integers are supported."))
    ELSE pop(annotateFresh(m, n, {builtinClasses("integer")}))

(***************************************************************************)
(* TupleExpression: the components are visited, then endVisit.             *)
(***************************************************************************)
visitTupleExpressionStep(m) ==
    LET f == Top(m)
        n == f.node
        kids == Node(n).kids
    IN
    CASE f.pc = "start" ->
           IF f.i <= Len(kids)
           THEN call(m, [f EXCEPT !.i = @ + 1], Frame(kids[f.i]))
           ELSE IF hasType(m, n) \/ \E j \in 1..Len(kids) : ~hasType(m, kids[j])
           THEN solAssertFailed(m)
           ELSE IF m.ctx \in {"Term", "Type"}
           THEN pop(annotate(m, n, tupleType([j \in 1..Len(kids) |-> getType(m, kids[j])])))
           ELSE LET m1 == withFreshVariable(m, {}) IN
                goto(m1, [f EXCEPT !.pc = "sort", !.i = 1, !.ta = newestVariable(m1)])
      [] OTHER ->
           IF f.i <= Len(kids)
           THEN call(m, [f EXCEPT !.i = @ + 1], UnifyFrame(f.ta, getType(m, kids[f.i]), n))
           ELSE pop(annotate(m, n, f.ta))

(***************************************************************************)
(* visit(Identifier) and handleIdentifierByReferencedDeclaration           *)
(***************************************************************************)
visitIdentifierStep(m) ==
    LET f == Top(m)
        n == f.node
        decl == referencedDeclaration(n)
        dk == Node(decl).kind
        unexpected == fatalTypeError(m, n, "Attempt to type identifier referring to unexpected node.")
    IN
    CASE f.pc = "start" ->
           IF hasType(m, n) THEN solAssertFailed(m)
           ELSE IF decl = NoNode
           THEN IF m.ctx = "Type" THEN pop(annotateFresh(m, n, {})) ELSE solAssertFailed(m)
           ELSE IF m.ctx = "Sort"
           THEN IF dk = "TypeClassDefinition"
                THEN call([m EXCEPT !.ctx = "Term"],
                          [f EXCEPT !.pc = "class", !.sctx = m.ctx], Frame(decl))
                ELSE pop(annotateFresh(typeError(m, n, "Expected type class."), n, {}))
           ELSE IF \/ m.ctx = "Term" /\ dk \notin {"FunctionDefinition", "VariableDeclaration",
                                                   "TypeClassDefinition", "TypeDefinition"}
                   \/ m.ctx = "Type" /\ dk \notin {"VariableDeclaration", "TypeDefinition"}
           THEN unexpected
           ELSE IF ~hasType(m, decl)
           THEN call(m, [f EXCEPT !.pc = "declaration"], Frame(decl))
           ELSE goto(m, [f EXCEPT !.pc = "declaration"])
      [] f.pc = "declaration" ->
           IF ~hasType(m, decl) THEN solAssertFailed(m)
           ELSE IF dk = "VariableDeclaration"
           THEN pop(annotate(m, n, getType(m, decl)))
           ELSE LET c == fresh(m.env, getType(m, decl)) IN
                pop(annotate([m EXCEPT !.env = c.cells], n, c.type))
      [] OTHER ->
           LET m1 == [m EXCEPT !.ctx = f.sctx] IN
           IF decl \notin DOMAIN m.annClass
           THEN pop(annotateFresh(typeError(m1, n, "Unregistered type class."), n, {}))
           ELSE pop(annotateFresh(m1, n, {m.annClass[decl]}))

(***************************************************************************)
(* visit(IdentifierPath): handleIdentifierByReferencedDeclaration as for   *)
(* an identifier, and no case for a path without referenced declaration.   *)
(***************************************************************************)
\* A path typed by the rules of an identifier.
pathAsIdentifier(m) == visitIdentifierStep(m)

visitIdentifierPathStep(m) ==
    LET n == Top(m).node IN
    IF hasType(m, n) THEN solAssertFailed(m)
    ELSE IF referencedDeclaration(n) # NoNode THEN visitIdentifierStep(m)
    ELSE solAssertFailed(m)

(***************************************************************************)
(* The class registry (TypeSystem).                                        *)
(***************************************************************************)
\* A map from names to types, as a sequence of entries.
names(fts) == {fts[j].name : j \in 1..Len(fts)}

\* functionTypes[name] = type
assign(fts, name, t) ==
    IF name \in names(fts)
    THEN [j \in 1..Len(fts) |-> IF fts[j].name = name THEN [name |-> name, type |-> t] ELSE fts[j]]
    ELSE Append(fts, [name |-> name, type |-> t])

\* declareTypeClass: the new class identity, or an error when the name or
\* the declaration is already registered.
declareTypeClass(classTable, typeVar, functions, name, decl) ==
    IF \E c \in 1..Len(classTable) : classTable[c].name = name \/ classTable[c].decl = decl
    THEN [error |-> "Type class already declared.", classes |-> classTable, class |-> 0]
    ELSE [error |-> "",
          classes |-> Append(classTable, [name |-> name, decl |-> decl, var |-> typeVar,
                                          functions |-> functions, required |-> names(functions)]),
          class |-> Len(classTable) + 1]

\* instantiateClass: records the arity, or returns an error for a second
\* instantiation of the pair (class, constructor) and for functions that do
\* not match the functions of the class (compared here by name).
instantiateClass(instanceTable, classTable, type, arity, functions) ==
    IF \E a \in instanceTable : a.cls = arity.class /\ a.ctor = type.c
    THEN [error |-> "Instantiation already exists.", instances |-> instanceTable]
    ELSE IF names(functions) # classTable[arity.class].required
    THEN [error |-> "Functions do not match the type class.", instances |-> instanceTable]
    ELSE [error |-> "",
          instances |-> instanceTable \cup
              {[cls |-> arity.class, ctor |-> type.c, argumentSorts |-> arity.argumentSorts]}]

(***************************************************************************)
(* TypeInference::typeConstructor                                          *)
(***************************************************************************)
hasTypeConstructor(n) == registeredTypeConstructor(n) # ""

unregisteredType(m, n) == fatalTypeError(m, n, "Unregistered type.")

(***************************************************************************)
(* visit(TypeClassDefinition)                                              *)
(***************************************************************************)
\* A check that only rejects functions without type variables.
dependsOnSomeVariable(tvs) == Len(tvs) >= 1

\* "typeVars.size() != 1" is the error case
dependsOnClassVariableOnly(tvs) == Len(tvs) = 1

visitTypeClassDefinitionStep(m) ==
    LET f == Top(m)
        n == f.node
        ctor == registeredTypeConstructor(n)
        subs == subNodes(n)
    IN
    CASE f.pc = "start" ->
           IF m.ctx # "Term" THEN solAssertFailed(m)
           ELSE IF hasType(m, n) THEN returnEarly(m, n)
           ELSE IF ~hasTypeConstructor(n) THEN unregisteredType(execute(m, n), n)
           ELSE call([annotate(execute(m, n), n, TypeConstant(ctor, <<>>)) EXCEPT !.ctx = "Type"],
                     [f EXCEPT !.pc = "variable", !.sctx = m.ctx], Frame(typeVariable(n)))
      [] f.pc = "variable" ->
           \* typeVar = freshTypeVariable({}); typeMembers = members[constructor]
           LET m1 == withFreshVariable([m EXCEPT !.ctx = f.sctx], {})
               m2 == IF ctor \in DOMAIN m1.members THEN m1
                     ELSE [m1 EXCEPT !.members = (ctor :> <<>>) @@ @]
           IN goto(m2, [f EXCEPT !.pc = "subNodes", !.i = 1, !.ta = newestVariable(m1)])
      [] f.pc = "subNodes" ->
           IF f.i <= Len(subs)
           THEN call(m, [f EXCEPT !.pc = "subNode"], Frame(subs[f.i]))
           ELSE LET d == declareTypeClass(m.classes, f.ta, f.fts, Node(n).name, n) IN
                IF d.error # "" THEN fatalTypeError(m, n, d.error)
                ELSE IF ~hasType(m, typeVariable(n)) THEN solAssertFailed(m)
                ELSE LET m1 == withFreshVariable([m EXCEPT !.classes = d.classes], {d.class}) IN
                     call(m1, [f EXCEPT !.pc = "declared", !.cls = d.class],
                          UnifyFrame(getType(m, typeVariable(n)), newestVariable(m1), n))
      [] f.pc = "subNode" ->
           IF ~hasType(m, subs[f.i]) THEN solAssertFailed(m)
           ELSE LET c == fresh(m.env, getType(m, subs[f.i]))
                    m1 == [m EXCEPT !.env = c.cells]
                    tvs == typeVars(c.cells, c.type)
                IN IF ~dependsOnClassVariableOnly(tvs)
                   THEN fatalTypeError(m1, subs[f.i],
                            "Function in type class may only depend on the type class variable.")
                   ELSE call(m1, [f EXCEPT !.pc = "unified", !.tb = c.type,
                                           !.fts = assign(@, Node(subs[f.i]).name, c.type)],
                             UnifyFrame(TypeVariable(tvs[1]), f.ta, subs[f.i]))
      [] f.pc = "unified" ->
           LET name == Node(subs[f.i]).name IN
           IF name \in DOMAIN m.members[ctor]
           THEN fatalTypeError(m, subs[f.i], "Function in type class declared multiple times.")
           ELSE goto([m EXCEPT !.members[ctor] = (name :> f.tb) @@ @],
                     [f EXCEPT !.pc = "subNodes", !.i = @ + 1])
      [] f.pc = "declared" ->
           goto(m, [f EXCEPT !.pc = "instantiations", !.i = 1, !.list = instantiationsOfDefinition(n)])
      [] OTHER ->
           IF f.i <= Len(f.list)
           THEN call(m, [f EXCEPT !.i = @ + 1], Frame(f.list[f.i]))
           ELSE pop(m)

(***************************************************************************)
(* visit(TypeClassInstantiation)                                           *)
(***************************************************************************)
\* An instantiation that is left without annotation.
markNothing(m, n) == m

\* "instantiationAnnotation.type = m_voidType;"
markVisited(m, n) == annotate(m, n, m_voidType)

\* An instantiation that stays active after its visit.
leaveActive(m, f) == pop(m)

\* activeInstantiations goes out of scope and the visit returns
leaveInstantiation(m, f) == pop([m EXCEPT !.active = f.sact])

\* An early return that leaves the instantiation among the active ones.
revisitWithoutRestore(m, f) == pop(foundAnnotated(m, f.node))

\* "if (instantiationAnnotation.type) return false;", reached with the
\* instantiation already added to the active ones
revisitInstantiation(m, f) == leaveInstantiation(foundAnnotated(m, f.node), f)

\* history: the first visit of n begins, calls instantiateClass, returns
beginFirstVisit(m, n) ==
    [m EXCEPT !.firstVisit = (n :> [entry |-> Len(m.errors), calls |-> <<>>,
                                    left |-> FALSE, reported |-> 0]) @@ @]

callsInstantiateClass(m, n, type, arity, functions) ==
    [m EXCEPT !.firstVisit[n].calls =
        Append(@, [type |-> type, arity |-> arity, functions |-> functions])]

endFirstVisit(m, f) ==
    LET v == m.firstVisit[f.node] IN
    leaveInstantiation(
        [m EXCEPT !.firstVisit[f.node] =
            [v EXCEPT !.left = TRUE, !.reported = Len(m.errors) - v.entry]], f)

\* from "if (!typeClass) return false;" on, with the class resolved
instantiationOfClass(m, f, cls) ==
    LET n == f.node IN
    IF ~hasTypeConstructor(n)
    THEN endFirstVisit(typeError(m, n, "Invalid type constructor."), f)
    ELSE IF argumentSorts(n) # NoNode
    THEN call([m EXCEPT !.ctx = "Type"],
              [f EXCEPT !.pc = "arguments", !.cls = cls, !.sctx = m.ctx], Frame(argumentSorts(n)))
    ELSE goto(m, [f EXCEPT !.pc = "subNodes", !.cls = cls, !.i = 1,
                           !.ta = TypeConstant(registeredTypeConstructor(n), <<>>)])

visitTypeClassInstantiationStep(m) ==
    LET f == Top(m)
        n == f.node
        decl == referencedDeclaration(n)
        subs == subNodes(n)
    IN
    CASE f.pc = "start" ->
           LET m1 == [m EXCEPT !.active = @ \cup {n}]
               f1 == [f EXCEPT !.sact = m.active]
           IN IF hasType(m, n) THEN revisitInstantiation(m1, f1)
              ELSE LET m2 == beginFirstVisit(execute(markVisited(m1, n), n), n) IN
                   IF decl # NoNode
                   THEN IF Node(decl).kind = "TypeClassDefinition"
                        THEN call(m2, [f1 EXCEPT !.pc = "class"], Frame(decl))
                        ELSE endFirstVisit(typeError(m2, n, "Expected type class."), f1)
                   ELSE IF builtinClassFromToken(Node(n).tok) # ""
                   THEN instantiationOfClass(m2, f1, builtinClasses(builtinClassFromToken(Node(n).tok)))
                   ELSE endFirstVisit(typeError(m2, n, "Invalid type class name."), f1)
      [] f.pc = "class" ->
           \* return annotation(*typeClass).typeClass;
           IF decl \notin DOMAIN m.annClass THEN endFirstVisit(m, f)
           ELSE instantiationOfClass(m, f, m.annClass[decl])
      [] f.pc = "arguments" ->
           IF ~hasType(m, argumentSorts(n)) THEN solAssertFailed(m)
           ELSE LET args == destTupleType(getType(m, argumentSorts(n))) IN
                goto([m EXCEPT !.ctx = f.sctx],
                     [f EXCEPT !.pc = "subNodes", !.i = 1,
                               !.ta = TypeConstant(registeredTypeConstructor(n), args),
                               !.sorts = [j \in 1..Len(args) |-> sortOf(m.env, m.instances, args[j])]])
      [] f.pc = "subNodes" ->
           IF f.i <= Len(subs)
           THEN call(m, [f EXCEPT !.pc = "subNode"], Frame(subs[f.i]))
           ELSE LET arity == [argumentSorts |-> f.sorts, class |-> f.cls]
                    r == instantiateClass(m.instances, m.classes, f.ta, arity, f.fts)
                    m1 == callsInstantiateClass([m EXCEPT !.instances = r.instances],
                                                n, f.ta, arity, f.fts)
                IN endFirstVisit(IF r.error # "" THEN typeError(m1, n, r.error) ELSE m1, f)
      [] OTHER ->
           IF ~hasType(m, subs[f.i]) THEN solAssertFailed(m)
           ELSE LET name == Node(subs[f.i]).name IN
                IF name \in names(f.fts)
                THEN goto(typeError(m, subs[f.i], "Duplicate definition of function during type class instantiation."),
                          [f EXCEPT !.pc = "subNodes", !.i = @ + 1])
                ELSE goto(m, [f EXCEPT !.pc = "subNodes", !.i = @ + 1,
                                       !.fts = Append(@, [name |-> name, type |-> getType(m, subs[f.i])])])

(***************************************************************************)
(* visit(TypeDefinition)                                                   *)
(***************************************************************************)
RECURSIVE withFreshVariables(_, _)
withFreshVariables(m, k) == IF k = 0 THEN m ELSE withFreshVariables(withFreshVariable(m, {}), k - 1)

visitTypeDefinitionStep(m) ==
    LET f == Top(m)
        n == f.node
        te == typeExpression(n)
        ctor == registeredTypeConstructor(n)
    IN
    CASE f.pc = "start" ->
           IF hasType(m, n) THEN returnEarly(m, n)
           ELSE IF arguments(n) # NoNode
           THEN call(m, [f EXCEPT !.pc = "arguments"], Frame(arguments(n)))
           ELSE goto(m, [f EXCEPT !.pc = "arguments"])
      [] f.pc = "arguments" ->
           IF te # NoNode
           THEN call([m EXCEPT !.ctx = "Type"], [f EXCEPT !.pc = "underlying", !.sctx = m.ctx], Frame(te))
           ELSE goto(m, [f EXCEPT !.pc = "underlying", !.sctx = m.ctx])
      [] OTHER ->
           LET underlyingType == IF te # NoNode /\ hasType(m, te) THEN getType(m, te) ELSE NoType
               k == IF arguments(n) # NoNode THEN Len(Node(arguments(n)).kids) ELSE 0
               m1 == withFreshVariables([m EXCEPT !.ctx = f.sctx], k)
               args == [j \in 1..k |-> TypeVariable(Len(m.env) + j)]
               definedType == TypeConstant(ctor, args)
           IN IF ~hasTypeConstructor(n) THEN unregisteredType(m1, n)
              ELSE IF ctor \in DOMAIN m1.members THEN solAssertFailed(m1)
              ELSE LET m2 == annotate(m1, n, IF k = 0 THEN definedType
                                             ELSE typeFunctionType(tupleType(args), definedType))
                       table == IF underlyingType # NoType
                                THEN ("abs" :> functionType(underlyingType, definedType))
                                     @@ ("rep" :> functionType(definedType, underlyingType))
                                ELSE <<>>
                   IN pop([m2 EXCEPT !.members = (ctor :> table) @@ @])

(***************************************************************************)
(* TypeInference::unify                                                    *)
(***************************************************************************)
RECURSIVE ascending(_)
ascending(set) ==
    IF set = {} THEN <<>>
    ELSE LET x == CHOOSE y \in set : \A z \in set : y <= z IN <<x>> \o ascending(set \ {x})

\* The loop over sortMismatch->sort.classes: stop is "return false".
RECURSIVE scanClasses(_, _, _, _, _, _)
scanClasses(cs, j, ctor, active, classTable, missing) ==
    IF j > Len(cs) THEN [stop |-> FALSE, recursion |-> FALSE, missing |-> missing]
    ELSE LET instantiation == instantiationFor(classTable, cs[j], ctor) IN
         IF instantiation = NoNode THEN [stop |-> TRUE, recursion |-> FALSE, missing |-> missing]
         ELSE IF instantiation \in active THEN [stop |-> TRUE, recursion |-> TRUE, missing |-> missing]
         ELSE scanClasses(cs, j + 1, ctor, active, classTable, Append(missing, instantiation))

\* The lambda onlyMissingInstantiations: its result (only), the flag it
\* sets (recursion) and the instantiations it collects (missing).
RECURSIVE scanFailures(_, _, _, _, _)
scanFailures(fails, i, active, classTable, missing) ==
    IF i > Len(fails) THEN [only |-> TRUE, recursion |-> FALSE, missing |-> missing]
    ELSE IF fails[i].kind = "SortMismatch" /\ isTypeConstant(fails[i].a)
    THEN LET r == scanClasses(ascending(fails[i].sort), 1, fails[i].a.c, active, classTable, missing) IN
         IF r.stop THEN [only |-> FALSE, recursion |-> r.recursion, missing |-> r.missing]
         ELSE scanFailures(fails, i + 1, active, classTable, r.missing)
    ELSE [only |-> FALSE, recursion |-> FALSE, missing |-> missing]

onlyMissingInstantiations(fails, active, classTable) == scanFailures(fails, 1, active, classTable, <<>>)

failureMessage(failure) ==
    CASE failure.kind = "TypeMismatch" -> "Cannot unify."
      [] failure.kind = "SortMismatch" -> "Type does not have sort."
      [] OTHER -> "Recursive unification."

\* The final loop: one diagnostic per failure, in order.
diagnostics(fails, loc) ==
    [j \in 1..Len(fails) |-> Diagnostic(failureMessage(fails[j]), loc, {}, fails[j])]

\* report the failures and return
reportFailures(m, fails, u) ==
    LET ds == diagnostics(fails, u.loc) IN
    pop([m EXCEPT !.errors = @ \o ds,
                  !.lastUnify = [u EXCEPT !.reported = ds, !.after = Len(m.errors) + Len(ds)]])

\* A guard that is always passed.
resolvesAlways(m) == TRUE

\* "if (!m_activeInstantiations.empty())": whether the interdependencies
\* between instantiations are looked at
resolvesInterdependencies(m) == m.active # {}

\* A recursion error that names no instantiation.
recursionWithoutLocations(m, loc) ==
    Diagnostic("Recursion during type class instantiation.", loc, {}, NoFailure)

\* The error of the recursion case: every active instantiation is a
\* secondary location.
recursionError(m, loc) ==
    Diagnostic("Recursion during type class instantiation.", loc, m.active, NoFailure)

\* A second unification whose failures are dropped.
rerunWithoutReport(m, f) ==
    LET r == envUnify(m.env, m.instances, f.ta, f.tb) IN
    pop([m EXCEPT !.env = r.cells,
                  !.lastUnify = [f.u EXCEPT !.second = r.fails, !.runs = @ + 1,
                                            !.after = Len(m.errors)]])

\* "unificationFailures = _env->unify(_a, _b);" after the visits, and the
\* final loop over its failures
rerun(m, f) ==
    LET r == envUnify(m.env, m.instances, f.ta, f.tb) IN
    reportFailures([m EXCEPT !.env = r.cells], r.fails,
                   [f.u EXCEPT !.second = r.fails, !.runs = @ + 1])

unifyStep(m) ==
    LET f == Top(m) IN
    CASE f.pc = "start" ->
           LET r == envUnify(m.env, m.instances, f.ta, f.tb)
               m1 == [m EXCEPT !.env = r.cells]
               u == [NoUnify EXCEPT !.loc = f.node, !.active = m.active, !.first = r.fails, !.runs = 1,
                                    !.typed = {n \in TopInstantiations : hasType(m, n)},
                                    !.before = Len(m.errors)]
               s == onlyMissingInstantiations(r.fails, m.active, m.classes)
           IN IF ~resolvesInterdependencies(m) THEN reportFailures(m1, r.fails, u)
              ELSE IF s.recursion
              THEN LET d == recursionError(m, f.node)
                   IN pop([m1 EXCEPT !.errors = Append(@, d),
                                     !.lastUnify = [u EXCEPT !.recursion = TRUE, !.reported = <<d>>,
                                                             !.after = Len(m.errors) + 1]])
              ELSE IF s.only
              THEN goto(m1, [f EXCEPT !.pc = "missing", !.i = 1, !.list = s.missing, !.u = u])
              ELSE reportFailures(m1, r.fails, u)
      [] OTHER ->
           IF f.i <= Len(f.list)
           THEN call(m, [f EXCEPT !.i = @ + 1, !.u.visited = Append(@, f.list[f.i])],
                     Frame(f.list[f.i]))
           ELSE rerun(m, f)

(***************************************************************************)
(* TypeInference::visitNode: the visit of every node without a handler.    *)
(***************************************************************************)
visitNodeStep(m) ==
    fatalTypeError(m, Top(m).node, "Unsupported AST node during type inference.")

(***************************************************************************)
(* TypeInference::analyze                                                  *)
(***************************************************************************)
\* A reporter that overlooks a single error.
hasSeveralErrors(m) == Len(m.errors) > 1

\* m_errorReporter.hasErrors()
hasErrors(m) == m.errors # <<>>

analyzeStep(m) == [m EXCEPT !.status = "done", !.result = ~hasErrors(m)]

(***************************************************************************)
(* The inputs: bounded families of programs.                               *)
(***************************************************************************)
Fn(name, par, ret, fbody, tuple, expr) ==
    [name |-> name, par |-> par, ret |-> ret, body |-> fbody, tuple |-> tuple, expr |-> expr]

\* function g(x);
NoFn == Fn("g", "untyped", <<>>, "unimplemented", FALSE, <<>>)

Inst(cls, ctor, method) == [cls |-> cls, ctor |-> ctor, method |-> method]

NoInst == Inst("", "", FALSE)

Class(name, ctor, method, sorted) == [name |-> name, ctor |-> ctor, method |-> method, sorted |-> sorted]

TypeDef(ctor, underlying) == [ctor |-> ctor, underlying |-> underlying]

Program(top, F, G, M1, M2, KM, I1, I2, K, T) ==
    [top |-> [j \in 1..Len(top) |-> Id(top[j])], F |-> F, G |-> G, M1 |-> M1, M2 |-> M2, KM |-> KM,
     I1 |-> I1, I2 |-> I2, K |-> K, T |-> T, again |-> FALSE, L |-> One,
     unbound |-> ""]

\* The bodies of a function: none, empty, or a single return statement
\* whose expression is absent, a component, or a tuple of components.
Bodies ==
    {<<"unimplemented", FALSE, <<>> >>, <<"empty", FALSE, <<>> >>, <<"return", FALSE, <<>> >>,
     <<"return", FALSE, <<"p">> >>, <<"return", FALSE, <<"lit">> >>,
     <<"return", TRUE, <<"lit">> >>, <<"return", TRUE, <<"p">> >>,
     <<"return", TRUE, <<"lit", "p">> >>, <<"return", TRUE, <<"p", "lit">> >>,
     <<"return", TRUE, <<"lit", "lit">> >>,
     <<"return", FALSE, <<"G">> >>, <<"return", FALSE, <<"T">> >>}

Functions(name, pars, rets) ==
    {Fn(name, par, ret, b[1], b[2], b[3]) : par \in pars, ret \in rets, b \in Bodies}

WellFormed(d) == "p" \in SeqRange(d.expr) => d.par # "none"

DefaultK == Class("K", "K", FALSE, FALSE)

DefaultT == TypeDef("T", TRUE)

\* Free functions, in either order with a function they may refer to.
FreeFunctionPrograms ==
    {Program(top, F, NoFn, NoFn, NoFn, NoFn, NoInst, NoInst, DefaultK, DefaultT) :
        top \in {<<"F", "G", "T">>, <<"G", "T", "F">>},
        F \in {d \in Functions("f", {"none", "untyped", "word"},
                               {<<>>, <<"word">>, <<"word", "bool">>}) : WellFormed(d)}}

\* The shapes of a function of an instantiation: what it returns against
\* what it declares decides the failures of the unification in its return.
MethodShapes(name) ==
    {Fn(name, "untyped", <<>>, "empty", FALSE, <<>>),
     Fn(name, "word", <<"word">>, "return", TRUE, <<"p">>),
     Fn(name, "word", <<"word">>, "return", TRUE, <<"lit">>),
     Fn(name, "word", <<"bool">>, "return", TRUE, <<"lit">>),
     Fn(name, "word", <<"word", "bool">>, "return", TRUE, <<"lit", "p">>),
     Fn(name, "word", <<"bool", "word">>, "return", TRUE, <<"p", "lit">>),
     Fn(name, "word", <<"word", "word">>, "return", TRUE, <<"lit", "lit">>),
     Fn(name, "word", <<"word", "bool">>, "return", TRUE, <<"lit", "lit">>)}

\* Instantiations of the built-in classes whose functions need one another,
\* with a free function that needs one of them, in every order.
InstantiationPrograms ==
    {Program(top, Fn("f", "word", <<"word">>, "return", TRUE, <<"lit">>), NoFn, M1, M2, NoFn,
             Inst("Integer", "word", TRUE), I2, DefaultK, DefaultT) :
        top \in {<<"I1">>, <<"I1", "I2">>, <<"I2", "I1">>, <<"F", "I1">>, <<"I1", "F">>, <<"I2", "F", "I1">>},
        M1 \in MethodShapes("fromInteger"),
        M2 \in MethodShapes("mul"),
        I2 \in {Inst("Mul", "word", TRUE), Inst("Mul", "bool", TRUE)}}

\* Instantiations that cannot be registered: no function, no registered
\* constructor, an unknown class token, a class name that is no class.
BrokenInstantiationPrograms ==
    {Program(top, Fn("f", "word", <<"word">>, "return", TRUE, <<"lit">>), NoFn,
             Fn("fromInteger", "word", <<"word">>, "return", TRUE, <<"p">>), M2, NoFn,
             I1, Inst("Mul", "word", TRUE), DefaultK, DefaultT) :
        top \in {<<"I1", "I2", "T">>, <<"I2", "I1", "T">>, <<"T", "F", "I1">>},
        M2 \in MethodShapes("mul"),
        I1 \in {Inst("Integer", "word", FALSE), Inst("Integer", "", TRUE),
                Inst("Not", "word", TRUE), Inst("T", "word", TRUE)}}

\* A user class with one function, in all its shapes.
ClassFunctionPrograms ==
    {Program(top, NoFn, NoFn, Fn("m", "untyped", <<>>, "empty", FALSE, <<>>), NoFn, KM,
             Inst("K", "word", TRUE), NoInst, Class("K", "K", TRUE, sorted), DefaultT) :
        top \in {<<"K", "I1">>, <<"I1", "K", "K2">>},
        sorted \in BOOLEAN,
        KM \in {d \in Functions("m", {"none", "untyped", "cvar", "word"},
                                {<<>>, <<"cvar">>, <<"free">>}) :
                  /\ WellFormed(d)
                  /\ <<d.body, d.tuple, d.expr>> \in
                        {<<"unimplemented", FALSE, <<>> >>, <<"return", FALSE, <<"p">> >>}}}

\* A user class, an instantiation of it, a second class used as the sort
\* of its variable, and a free function naming the class, in several orders.
ClassPrograms ==
    {Program(top, Fn("f", "none", <<>>, "return", FALSE, <<"K">>), NoFn,
             Fn("m", "untyped", <<>>, "empty", FALSE, <<>>), NoFn,
             Fn("m", "cvar", <<>>, "unimplemented", FALSE, <<>>),
             Inst("K", ctor, TRUE), NoInst, K, DefaultT) :
        top \in {<<"K", "I1">>, <<"I1", "K">>, <<"K", "K2", "I1", "T">>, <<"F", "K", "I1">>,
                 <<"T", "K2", "I1", "K", "F">>},
        ctor \in {"word", "T"},
        K \in {Class("K", "K", TRUE, FALSE), Class("K", "K", TRUE, TRUE), Class("K", "K", FALSE, FALSE),
               Class("integer", "K", TRUE, FALSE), Class("K", "", TRUE, FALSE)}}

\* Programs with an import directive, a name that refers to it or to a
\* function where a type is expected, and a class that declares its
\* function twice.
AbortedPrograms ==
    {Program(top, F, NoFn, NoFn, NoFn, NoFn, NoInst, NoInst, DefaultK, DefaultT) :
        top \in {<<"F", "X">>, <<"X", "F">>, <<"F", "G">>},
        F \in {Fn("f", "none", <<>>, "return", FALSE, <<"X">>),
               Fn("f", "fname", <<>>, "empty", FALSE, <<>>),
               Fn("f", "word", <<"bool">>, "return", FALSE, <<"p">>)}}
    \cup
    {[Program(<<"K", "I1">>, NoFn, NoFn, Fn("m", "untyped", <<>>, "empty", FALSE, <<>>), NoFn,
              Fn("m", "cvar", <<>>, "unimplemented", FALSE, <<>>),
              Inst("K", "word", TRUE), NoInst, Class("K", "K", TRUE, FALSE), DefaultT)
        EXCEPT !.again = TRUE]}

\* The literals: every sub-denomination; no exponent, small exponents,
\* exponents too large for 4096 bits and the ends of the signed 32-bit
\* range; with and without digits after the radix point; a hexadecimal
\* number; and tokens that are no numbers.
Literals ==
    LET SubDenominations ==
            {"", "wei", "gwei", "ether", "seconds", "minutes", "hours", "days", "weeks", "years"}
        Exponents ==
            {<<FALSE, FALSE, <<>> >>, <<TRUE, FALSE, <<0>> >>, <<TRUE, FALSE, <<1>> >>,
             <<TRUE, FALSE, <<2>> >>, <<TRUE, TRUE, <<1>> >>, <<TRUE, TRUE, <<2>> >>,
             <<TRUE, FALSE, <<1, 2, 3, 4>> >>, <<TRUE, TRUE, <<1, 2, 3, 4>> >>,
             <<TRUE, FALSE, Int32Max>>, <<TRUE, FALSE, Int32Min>>,
             <<TRUE, TRUE, <<2, 1, 4, 7, 4, 8, 3, 6, 4, 9>> >>}
        Fractions ==
            {<<FALSE, <<>> >>, <<TRUE, <<0>> >>, <<TRUE, <<5>> >>, <<TRUE, <<0, 5>> >>, <<TRUE, <<2, 5>> >>}
    IN
    {Lit("Number", FALSE, whole, f[1], f[2], e[1], e[2], e[3], sub) :
        whole \in {<<0>>, <<1>>, <<1, 2>>}, f \in Fractions, e \in Exponents, sub \in SubDenominations}
    \cup {Lit("Number", TRUE, <<1, 14>>, FALSE, <<>>, FALSE, FALSE, <<>>, sub) : sub \in {"", "minutes"}}
    \cup {Lit(tok, FALSE, <<>>, FALSE, <<>>, FALSE, FALSE, <<>>, "") : tok \in {"StringLiteral", "TrueLiteral"}}

\* function f() { return L; } for every literal L
LiteralPrograms ==
    {[Program(<<"F">>, Fn("f", "none", <<>>, "return", FALSE, <<"L">>), NoFn, NoFn, NoFn, NoFn,
              NoInst, NoInst, DefaultK, DefaultT) EXCEPT !.L = l] : l \in Literals}

\* Names without a referenced declaration, identifiers and paths, where a
\* type, a term and a sort are expected, and a path that names a type.
UnboundNamePrograms ==
    {Program(<<"F", "T">>, F, NoFn, NoFn, NoFn, NoFn, NoInst, NoInst, DefaultK, DefaultT) :
        F \in {Fn("f", par, <<>>, "empty", FALSE, <<>>) : par \in {"free", "path", "pathT"}}
              \cup {Fn("f", "none", <<>>, "return", FALSE, <<a>>) : a \in {"free", "path"}}}
    \cup
    {[Program(<<"K">>, NoFn, NoFn, NoFn, NoFn, NoFn, NoInst, NoInst, Class("K", "K", FALSE, TRUE), DefaultT)
        EXCEPT !.unbound = kind] : kind \in {"Identifier", "IdentifierPath"}}

\* Binary operations: as the type of the parameter of a free function and
\* of a function of an instantiation (an ascription, an arrow, a sum), as
\* the expression of a return, and as the sort of a class variable.
BinaryOperationPrograms ==
    {Program(top, Fn("f", par, <<>>, "empty", FALSE, <<>>), NoFn, NoFn, NoFn, NoFn,
             NoInst, NoInst, DefaultK, DefaultT) :
        top \in {<<"F", "K">>, <<"K", "F">>},
        par \in {"word:1", "word:K", "word->bool", "word+bool"}}
    \cup
    {Program(top, NoFn, NoFn, Fn("mul", par, <<>>, "empty", FALSE, <<>>),
             Fn("fromInteger", "untyped", <<>>, "empty", FALSE, <<>>), NoFn,
             Inst("Mul", "bool", TRUE), Inst("Integer", "word", method), DefaultK, DefaultT) :
        top \in {<<"I1", "I2">>, <<"I2", "I1">>, <<"I1", "I2", "K">>},
        par \in {"word:1", "word:K", "word->bool"},
        method \in BOOLEAN}
    \cup
    {Program(<<"F">>, Fn("f", "none", <<>>, "return", FALSE, <<"sum">>), NoFn, NoFn, NoFn, NoFn,
             NoInst, NoInst, DefaultK, DefaultT),
     [Program(<<"K">>, NoFn, NoFn, NoFn, NoFn, NoFn, NoInst, NoInst, Class("K", "K", FALSE, TRUE), DefaultT)
        EXCEPT !.unbound = "BinaryOperation"]}

\* Functions that return themselves or one another.
RecursivePrograms ==
    {Program(<<"F", "G">>, Fn("f", par, <<>>, "return", FALSE, <<callee>>),
             Fn("g", "none", <<>>, "return", FALSE, <<"F">>), NoFn, NoFn, NoFn,
             NoInst, NoInst, DefaultK, DefaultT) :
        par \in {"none", "untyped", "word"}, callee \in {"F", "G"}}

Programs ==
    RecursivePrograms \cup BinaryOperationPrograms \cup UnboundNamePrograms \cup LiteralPrograms \cup FreeFunctionPrograms \cup InstantiationPrograms \cup BrokenInstantiationPrograms
    \cup ClassFunctionPrograms \cup ClassPrograms \cup AbortedPrograms

\* The classes with their instantiations, the instantiations visited from
\* unify, and a program for each kind of node.
MutualPrograms ==
    RecursivePrograms \cup BinaryOperationPrograms \cup ClassPrograms \cup AbortedPrograms \cup UnboundNamePrograms
    \cup {p \in InstantiationPrograms : p.M1.expr = p.M2.expr}

\* The state after construction, for a source unit among the programs.
Constructed(programs) ==
    /\ prog \in programs
    /\ ast = [n \in NodeIds |-> SourceNode(n)]
    /\ stack = <<Frame(Id("unit"))>>
    /\ m_expressionContext = "Term"
    /\ m_activeInstantiations = {}
    /\ m_currentFunctionType = NoType
    /\ annotationType = <<>>
    /\ annotationTypeClass = <<>>
    /\ members = <<>>
    /\ env = <<>>
    /\ instances = {}
    /\ classes = BuiltinClassTable
    /\ errors = <<>>
    /\ status = "running"
    /\ result = FALSE
    /\ lastUnify = NoUnify
    /\ firstVisit = <<>>
    /\ earlyReturns = {}
    /\ executed = <<>>
    /\ steps = 0

Init == Constructed(Programs)

Running == status = "running" /\ stack # <<>>

Visiting(kinds) == Running /\ Top(M).op = "visit" /\ Kind(M) \in kinds

visitSourceUnit == Visiting({"SourceUnit"}) /\ Becomes(visitChildrenStep(M))

visitBlock == Visiting({"Block"}) /\ Becomes(visitChildrenStep(M))

visitFunctionDefinition == Visiting({"FunctionDefinition"}) /\ Becomes(visitFunctionDefinitionStep(M))

visitReturn == Visiting({"Return"}) /\ Becomes(visitReturnStep(M))

visitParameterList == Visiting({"ParameterList"}) /\ Becomes(visitParameterListStep(M))

visitVariableDeclaration == Visiting({"VariableDeclaration"}) /\ Becomes(visitVariableDeclarationStep(M))

visitElementaryTypeNameExpression ==
    Visiting({"ElementaryTypeNameExpression"}) /\ Becomes(visitElementaryTypeNameExpressionStep(M))

visitBinaryOperation == Visiting({"BinaryOperation"}) /\ Becomes(visitBinaryOperationStep(M))

visitLiteral == Visiting({"Literal"}) /\ Becomes(visitLiteralStep(M))

visitTupleExpression == Visiting({"TupleExpression"}) /\ Becomes(visitTupleExpressionStep(M))

visitIdentifier == Visiting({"Identifier"}) /\ Becomes(visitIdentifierStep(M))

visitIdentifierPath == Visiting({"IdentifierPath"}) /\ Becomes(visitIdentifierPathStep(M))

visitTypeClassDefinition == Visiting({"TypeClassDefinition"}) /\ Becomes(visitTypeClassDefinitionStep(M))

visitTypeClassInstantiation ==
    Visiting({"TypeClassInstantiation"}) /\ Becomes(visitTypeClassInstantiationStep(M))

visitTypeDefinition == Visiting({"TypeDefinition"}) /\ Becomes(visitTypeDefinitionStep(M))

visitNode == Visiting({"ImportDirective"}) /\ Becomes(visitNodeStep(M))

unify == Running /\ Top(M).op = "unify" /\ Becomes(unifyStep(M))

analyze == status = "running" /\ stack = <<>> /\ Becomes(analyzeStep(M))

Next ==
    \/ visitSourceUnit
    \/ visitBlock
    \/ visitFunctionDefinition
    \/ visitReturn
    \/ visitParameterList
    \/ visitVariableDeclaration
    \/ visitElementaryTypeNameExpression
    \/ visitBinaryOperation
    \/ visitLiteral
    \/ visitTupleExpression
    \/ visitIdentifier
    \/ visitIdentifierPath
    \/ visitTypeClassDefinition
    \/ visitTypeClassInstantiation
    \/ visitTypeDefinition
    \/ visitNode
    \/ unify
    \/ analyze


Spec == Init /\ [][Next]_vars

\* The node kinds the actions above dispatch on.
VisitKinds ==
    {"SourceUnit", "Block", "FunctionDefinition", "Return", "ParameterList",
     "VariableDeclaration", "ElementaryTypeNameExpression", "BinaryOperation", "Literal",
     "TupleExpression", "Identifier", "IdentifierPath", "TypeClassDefinition",
     "TypeClassInstantiation", "TypeDefinition", "ImportDirective"}

\* A step of the walk, seen from outside: the guard of some action holds
\* and the step is counted.
Advance ==
    /\ \/ Visiting(VisitKinds)
       \/ Running /\ Top(M).op = "unify"
       \/ status = "running" /\ stack = <<>>
    /\ steps' = steps + 1

\* The walk is one call of analyze: while it has neither returned nor
\* thrown, it goes on.
FairSpec == Constructed(MutualPrograms) /\ [][Next]_vars /\ WF_steps(Advance)

(***************************************************************************)
(* Properties.  The unify call that returned last is described by          *)
(* lastUnify; the predicates below speak about its first batch of          *)
(* failures.                                                               *)
(***************************************************************************)
Called == lastUnify.runs > 0

IsSortMismatchOnConstant(x) == x.kind = "SortMismatch" /\ isTypeConstant(x.a)

\* The instantiation nodes for the constructor of a failure, one for each
\* class of the sort that is missing (NoNode for a class without one).
Required(x) == {instantiationFor(classes, c, x.a.c) : c \in x.sort}

\* A sort mismatch on a type constant whose classes all have a known
\* instantiation for the constructor.
Resolvable(x) == IsSortMismatchOnConstant(x) /\ NoNode \notin Required(x)

AllResolvable(u) == u.first # <<>> /\ \A j \in 1..Len(u.first) : Resolvable(u.first[j])

RequiredBy(u) ==
    UNION {Required(u.first[j]) : j \in {i \in 1..Len(u.first) : IsSortMismatchOnConstant(u.first[i])}}

\* The diagnostics the error reporter received during the call.
ReportedDuring(u) == SubSeq(errors, u.before + 1, u.after)

\* The call visited nothing, unified once and reported its failures as they are.
ReportedVerbatim(u) ==
    /\ u.runs = 1
    /\ u.visited = <<>>
    /\ ~u.recursion
    /\ ReportedDuring(u) = diagnostics(u.first, u.loc)

\* The call visited the instantiations its failures require, then unified a
\* second time and reported the failures of the second unification.
Retried(u) ==
    /\ u.runs = 2
    /\ SeqRange(u.visited) = RequiredBy(u)
    /\ \A n \in SeqRange(u.visited) : n \in DOMAIN annotationType
    /\ u.reported = diagnostics(u.second, u.loc)
    /\ SubSeq(errors, u.after - Len(u.second) + 1, u.after) = u.reported

\* The call reported the recursion once, with the active instantiations as
\* secondary locations, and nothing else.
Abandoned(u) ==
    /\ u.recursion
    /\ u.runs = 1
    /\ u.visited = <<>>
    /\ ReportedDuring(u) =
          <<Diagnostic("Recursion during type class instantiation.", u.loc, u.active, NoFailure)>>

\* C1: analyze returns true exactly when the error reporter holds no error
\* after the walk.
C1_AnalyzeReturnsNoErrors == status = "done" => (result <=> errors = <<>>)

\* A walk that ended with a single error, reported by unify, and returned false.
C1_Witness ==
    /\ status = "done"
    /\ ~result
    /\ Len(errors) = 1
    /\ errors[1].failure # NoFailure

\* C2 as stated: every unify call, also one made while no instantiation is
\* active, that fails only with sort mismatches whose instantiations are
\* known and not yet visited, visits them and unifies again.
C2_ForwardReferencesEverywhere ==
    (Called /\ AllResolvable(lastUnify) /\ RequiredBy(lastUnify) \cap lastUnify.typed = {})
        => Retried(lastUnify)

\* C2 amended: the forward references are resolved by a unify call made
\* while an instantiation is active; a call made while none is active
\* reports its failures as they are.
C2_ForwardReferencesWhileActive ==
    /\ (Called /\ lastUnify.active # {} /\ AllResolvable(lastUnify)
           /\ RequiredBy(lastUnify) \cap lastUnify.typed = {})
          => Retried(lastUnify)
    /\ (Called /\ lastUnify.active = {}) => ReportedVerbatim(lastUnify)

\* A call inside an instantiation that visited an instantiation appearing
\* later and then unified without failure.
C2_Witness ==
    /\ Called
    /\ lastUnify.active # {}
    /\ AllResolvable(lastUnify)
    /\ RequiredBy(lastUnify) \cap lastUnify.typed = {}
    /\ lastUnify.runs = 2
    /\ lastUnify.second = <<>>

\* C3 as stated: a sort mismatch whose instantiation is active makes the
\* call report the recursion and abandon the batch, whatever else the batch
\* holds.
C3_RecursionForAnyActive ==
    (Called /\ \E j \in 1..Len(lastUnify.first) :
                  /\ IsSortMismatchOnConstant(lastUnify.first[j])
                  /\ Required(lastUnify.first[j]) \cap lastUnify.active # {})
        => Abandoned(lastUnify)

\* C3 amended: when every failure of the batch is a sort mismatch with known
\* instantiations and one of these is active, the recursion is reported
\* once with the active instantiations and the batch is abandoned.
C3_RecursionWhenAllResolvable ==
    (Called /\ AllResolvable(lastUnify) /\ RequiredBy(lastUnify) \cap lastUnify.active # {})
        => Abandoned(lastUnify)

\* A call whose only failure needs the instantiation being visited.
C3_Witness ==
    /\ Called
    /\ AllResolvable(lastUnify)
    /\ RequiredBy(lastUnify) \cap lastUnify.active # {}
    /\ lastUnify.recursion
    /\ errors # <<>>
    /\ errors[Len(errors)].ssl = lastUnify.active

\* C4 as stated: whenever every failure is a sort mismatch with known
\* instantiations none of which is active, the instantiations are visited
\* and the unification is run a second and last time.
C4_SingleRetryEverywhere ==
    /\ lastUnify.runs <= 2
    /\ (Called /\ AllResolvable(lastUnify) /\ RequiredBy(lastUnify) \cap lastUnify.active = {})
          => Retried(lastUnify)

\* C4 amended: the same for a call made while an instantiation is active.
C4_SingleRetryWhileActive ==
    /\ lastUnify.runs <= 2
    /\ (Called /\ lastUnify.active = {}) => (lastUnify.runs = 1 /\ lastUnify.visited = <<>>)
    /\ (Called /\ lastUnify.active # {} /\ AllResolvable(lastUnify)
           /\ RequiredBy(lastUnify) \cap lastUnify.active = {})
          => Retried(lastUnify)

\* A retry whose second unification failed again with a sort mismatch that
\* has a known instantiation, and reported it.
C4_Witness ==
    /\ Called
    /\ lastUnify.active # {}
    /\ AllResolvable(lastUnify)
    /\ lastUnify.runs = 2
    /\ lastUnify.second # <<>>
    /\ \A j \in 1..Len(lastUnify.second) : Resolvable(lastUnify.second[j])
    /\ lastUnify.reported # <<>>

\* C5: a batch with a failure that is no sort mismatch with known
\* instantiations is reported as it is, in order, with no visit, no second
\* unification and no recursion error, whatever the order of its failures.
C5_MixedBatchVerbatim ==
    (Called /\ \E j \in 1..Len(lastUnify.first) : ~Resolvable(lastUnify.first[j]))
        => ReportedVerbatim(lastUnify)

(***************************************************************************)
(* Properties of the class definitions and instantiations.                 *)
(***************************************************************************)
\* The visit of n is over: n is annotated and no frame of the stack is at n.
Completed(n) ==
    /\ n \in DOMAIN annotationType
    /\ \A i \in 1..Len(stack) : stack[i].node # n

Declared(decl) == \E c \in 1..Len(classes) : classes[c].decl = decl

\* C6: once the visit of a class definition has declared the class, the
\* definition's annotation carries the class, and a name of the class in
\* Sort context is typed without the error "Unregistered type class.".
C6_TypeClassAnnotated ==
    /\ \A c \in 1..Len(classes) :
          (classes[c].decl # NoNode /\ Completed(classes[c].decl))
              => /\ classes[c].decl \in DOMAIN annotationTypeClass
                 /\ annotationTypeClass[classes[c].decl] = c
    /\ \A j \in 1..Len(errors) :
          errors[j].msg = "Unregistered type class."
              => ~Declared(referencedDeclaration(errors[j].loc))

NamesClass(n) ==
    \/ /\ referencedDeclaration(n) # NoNode
       /\ Node(referencedDeclaration(n)).kind = "TypeClassDefinition"
    \/ /\ referencedDeclaration(n) = NoNode
       /\ builtinClassFromToken(Node(n).tok) # ""

\* C7: the first visit of an instantiation that names a class ends either
\* with one call of instantiateClass for its constructor and its functions,
\* or with an error reported during the visit.
C7_NeverSilentlyUnregistered ==
    \A n \in DOMAIN firstVisit :
        (firstVisit[n].left /\ NamesClass(n))
            => \/ /\ Len(firstVisit[n].calls) = 1
                  /\ firstVisit[n].calls[1].type.c = registeredTypeConstructor(n)
                  /\ Len(firstVisit[n].calls[1].functions) = Len(subNodes(n))
               \/ firstVisit[n].reported > 0

OnlyDependsOnClassVariable ==
    "Function in type class may only depend on the type class variable."

\* C8: every function of a declared class has the class variable as its
\* only free type variable; the fatal error for another number of variables
\* ends the pass before the function is unified and before the class is
\* declared.
C8_ClassMethodConstraint ==
    /\ \A c \in 1..Len(classes) :
          classes[c].decl # NoNode
              => /\ Len(typeVars(env, classes[c].var)) = 1
                 /\ \A j \in 1..Len(classes[c].functions) :
                       typeVars(env, classes[c].functions[j].type) = typeVars(env, classes[c].var)
    /\ \A j \in 1..Len(errors) :
          errors[j].msg = OnlyDependsOnClassVariable
              => /\ status = "fatal"
                 /\ j = Len(errors)
                 /\ lastUnify.loc # errors[j].loc
                 /\ ~Declared(Id("K"))

\* The class K declared with its function, whose type mentions the class
\* variable and nothing else.
C8_Witness ==
    \E c \in 1..Len(classes) :
        /\ classes[c].decl = Id("K")
        /\ Len(classes[c].functions) = 1
        /\ typeVars(env, classes[c].functions[1].type) = typeVars(env, classes[c].var)
        /\ lastUnify.loc = Id("K")

IsId == prog.F = Fn("f", "untyped", <<>>, "return", FALSE, <<"p">>) /\ Id("F") \in SeqRange(prog.top)

\* C9: function id(x) { return x; } is typed without error and its type is
\* fn(a -> a): parameter and result are the same unbound type variable.
C9_IdStaysPolymorphic ==
    (status = "done" /\ IsId)
        => /\ errors = <<>>
           /\ LET ft == destFunctionType(annotationType[Id("F")])
                  parameter == resolve(env, destTupleType(ft[1])[1])
                  returned == resolve(env, ft[2])
              IN parameter.k = "var" /\ returned = parameter

AnnotatedDefinition ==
    /\ Running
    /\ Top(M).op = "visit"
    /\ Top(M).pc = "start"
    /\ Kind(M) \in {"FunctionDefinition", "TypeClassDefinition", "TypeClassInstantiation",
                    "TypeDefinition"}
    /\ hasType(M, Top(M).node)
    /\ Kind(M) \in {"FunctionDefinition", "TypeClassDefinition"} => m_expressionContext = "Term"

\* C10: the visit of a function definition, class definition, instantiation
\* or type definition that is already annotated returns at once and changes
\* nothing but the call stack.
C10_AnnotatedDefinitionReturns ==
    [][AnnotatedDefinition
          => /\ stack' = SubSeq(stack, 1, Len(stack) - 1)
             /\ UNCHANGED <<annotationType, annotationTypeClass, members, env, instances,
                            classes, errors, status, lastUnify, firstVisit,
                            m_expressionContext, m_activeInstantiations,
                            m_currentFunctionType>>]_vars

\* A class definition and an instantiation were both visited again.
C10_Witness ==
    /\ \E n \in earlyReturns : Node(n).kind = "TypeClassInstantiation"
    /\ \E n \in earlyReturns : Node(n).kind = "TypeClassDefinition"
    /\ status = "done"

(***************************************************************************)
(* Properties of the diagnostics.                                          *)
(***************************************************************************)
Last(seq) == seq[Len(seq)]

Aborted == status = "fatal"

NamedFatal ==
    {"Unregistered type.",
     "Attempt to type identifier referring to unexpected node.",
     "Function in type class declared multiple times."}

AlsoFatal ==
    {"Function in type class may only depend on the type class variable.",
     "Type class already declared.",
     "Unsupported AST node during type inference."}

\* C11 as stated: the pass is aborted only by the diagnostics for an
\* unregistered type, an unexpected referent and a function declared twice
\* in a class; after every other diagnostic the walk continues.
C11_OnlyThreeFatal ==
    \A j \in 1..Len(errors) :
        errors[j].msg \notin NamedFatal => ~(Aborted /\ j = Len(errors))

\* C11 amended: the pass is aborted by these three diagnostics and by three
\* more: a class function that does not depend on the class variable alone,
\* the error of declareTypeClass, and an unsupported node.  Each of the six
\* ends the pass where it is reported; after every other diagnostic the
\* walk continues.
C11_SixFatal ==
    \A j \in 1..Len(errors) :
        errors[j].msg \in NamedFatal \cup AlsoFatal <=> (Aborted /\ j = Len(errors))

\* The walk continued after a failed unification and was aborted at an
\* unsupported node.
C11_Witness ==
    /\ Aborted
    /\ Len(errors) = 2
    /\ errors[1].failure # NoFailure
    /\ errors[2].msg = "Unsupported AST node during type inference."

\* The diagnostics that reject an expression without ending the pass.
RejectedExpression ==
    {"Only number literals are supported.", "Invalid number literals.",
     "Only integers are supported.",
     "Elementary type name expression only supported in type context.",
     "No type constructor registered for elementary type name.",
     "Binary operation in term context not yet supported.",
     "Invalid binary operations in type context.",
     "Invalid binary operation in sort context.",
     "Variable declaration in sort context.",
     "Assignment outside term context.",
     "Member access outside term context.", "Member not found.",
     "Unsupported member access expression.",
     "Function call in sort context."}

\* The visit of n is over or was never begun: no frame of the stack is at n.
Left(n) == \A i \in 1..Len(stack) : stack[i].node # n

\* C12: every expression node on which a non-fatal type error was reported
\* has a type annotation once its visit has finished.
C12_RejectedExpressionAnnotated ==
    \A j \in 1..Len(errors) :
        (errors[j].msg \in RejectedExpression /\ Left(errors[j].loc))
            => errors[j].loc \in DOMAIN annotationType

(***************************************************************************)
(* Properties of the literals.  What a literal's text denotes is read off  *)
(* its digits: the mantissa M with d digits after the radix point, the     *)
(* exponent e and the factor c * 10^u of the sub-denomination give         *)
(* M * c * 10^(e + u - d).                                                 *)
(***************************************************************************)
Decimal(digits) == bigint(digits, 10)

ZeroMantissa(l) == \A c \in SeqRange(l.whole) \cup SeqRange(l.frac) : c = 0

\* 10^|e| alone has more than 4096 bits.
BeyondPrecision(l) == Len(l.exp) > 4 \/ Decimal(l.exp) >= 1234

BeyondInt32(l) ==
    l.sci /\ l.exp \in {Int32Min, <<2, 1, 4, 7, 4, 8, 3, 6, 4, 9>>} /\ (l.exp = Int32Min => ~l.neg)

\* The value parses: a hexadecimal or decimal text, or a scientific one
\* with a mantissa that is not zero and an exponent that is not too large.
Parses(l) == l.hex \/ ~l.sci \/ (~ZeroMantissa(l) /\ ~BeyondPrecision(l))

\* The factors of the sub-denominations, as c * 10^u.
Factor(sub) ==
    CASE sub = "gwei" -> <<1, 9>>
      [] sub = "ether" -> <<1, 18>>
      [] sub = "minutes" -> <<6, 1>>
      [] sub = "hours" -> <<36, 2>>
      [] sub = "days" -> <<864, 2>>
      [] sub = "weeks" -> <<6048, 2>>
      [] sub = "years" -> <<31536, 3>>
      [] OTHER -> <<1, 0>>

\* The denominator of the value is 1.
IntegerValued(l) ==
    LET e == IF ~l.sci THEN 0 ELSE IF l.neg THEN 0 - Decimal(l.exp) ELSE Decimal(l.exp)
        k == e + Factor(l.sub)[2] - Len(l.frac)
    IN l.hex \/ ZeroMantissa(l) \/ k >= 0
       \/ (Decimal(l.whole \o l.frac) * Factor(l.sub)[1]) % pow10(0 - k) = 0

Accepted(l) == l.tok = "Number" /\ Parses(l) /\ IntegerValued(l)

Rejection(l) ==
    IF l.tok # "Number" THEN "Only number literals are supported."
    ELSE IF ~Parses(l) THEN "Invalid number literals."
    ELSE "Only integers are supported."

EnclosingFunction(i) ==
    LET js == {j \in 1..(i - 1) : stack[j].op = "visit" /\ Node(stack[j].node).kind = "FunctionDefinition"}
    IN stack[CHOOSE j \in js : \A k \in js : k <= j]

\* fn(parameter tuple -> return-parameter tuple, or unit without a return list)
DeclaredFunctionType(n) ==
    functionType(annotationType[parameterList(n)],
                 IF returnParameterList(n) # NoNode THEN annotationType[returnParameterList(n)]
                 ELSE m_unitType)

ReturnUnifies(i) ==
    /\ stack[i].op = "unify"
    /\ Node(stack[i].node).kind = "Return"

\* C14: the unify call of a return statement is given the return component
\* of the type of the innermost function definition being visited, which is
\* the function the statement belongs to, and the type of the statement's
\* expression, or unit without one; also after another function definition
\* was visited on demand in between.
C14_ReturnUnifiesWithEnclosing ==
    \A i \in 1..Len(stack) :
        ReturnUnifies(i)
            => LET n == stack[i].node
                   g == EnclosingFunction(i)
               IN /\ g.node = Id(n[1])
                  /\ g.ta = DeclaredFunctionType(g.node)
                  /\ stack[i].ta = destFunctionType(g.ta)[2]
                  /\ stack[i].tb = IF expression(n) # NoNode THEN annotationType[expression(n)]
                                   ELSE m_unitType

\* The return of f unifies after g was visited from the expression of the
\* return, and the two functions return different types.
C14_Witness ==
    /\ stack # <<>>
    /\ ReturnUnifies(Len(stack))
    /\ Top(M).node[1] = "F"
    /\ prog.top[1] = Id("F")
    /\ Id("G") \in DOMAIN annotationType
    /\ destFunctionType(annotationType[Id("G")])[2] # Top(M).ta

(***************************************************************************)
(* Properties of the names.                                                *)
(***************************************************************************)
\* The visit of a name without a referenced declaration begins.
UnboundName(kinds) ==
    /\ Visiting(kinds)
    /\ Top(M).pc = "start"
    /\ referencedDeclaration(Top(M).node) = NoNode
    /\ ~hasType(M, Top(M).node)

\* The name is annotated with a new type variable of the empty sort, no
\* error is reported and the visit returns.
BecomesFreeVariable ==
    /\ errors' = errors
    /\ status' = "running"
    /\ Len(env') = Len(env) + 1
    /\ env'[Len(env')] = [sort |-> {}, bind |-> NoType]
    /\ annotationType' = (Top(M).node :> TypeVariable(Len(env'))) @@ annotationType
    /\ stack' = SubSeq(stack, 1, Len(stack) - 1)

\* The pass ends at the name, which stays without annotation.
HardError == status' \in {"assert", "fatal"} /\ annotationType' = annotationType

\* C15 as stated: a name without a referenced declaration, identifier or
\* path, becomes a fresh unconstrained type variable without error in Type
\* context and is a hard error in Term and Sort context.
C15_UnboundNameIsFreeInType ==
    [][UnboundName({"Identifier", "IdentifierPath"})
          => IF m_expressionContext = "Type" THEN BecomesFreeVariable ELSE HardError]_vars

\* C15 amended: this holds of an identifier; a path without a referenced
\* declaration is a hard error in every context, Type included.
C15_UnboundIdentifierIsFreeInType ==
    [][/\ UnboundName({"Identifier"})
          => IF m_expressionContext = "Type" THEN BecomesFreeVariable ELSE HardError
       /\ UnboundName({"IdentifierPath"}) => HardError]_vars

\* An identifier without declaration was typed as a parameter's type.
C15_Witness ==
    /\ status = "done"
    /\ prog.F.par = "free"
    /\ <<"F", 3>> \in DOMAIN annotationType
    /\ resolve(env, annotationType[<<"F", 3>>]).k = "var"
    /\ errors = <<>>

(***************************************************************************)
(* Properties of the mutual visits of classes and instantiations.          *)
(***************************************************************************)
\* C16: the body of every type class definition and of every instantiation
\* begins at most once; when the walk is over, the instantiations of every
\* class whose definition was walked have been walked and the class of
\* every instantiation that was walked has been walked; and the walk ends.
C16_MutualVisitsTerminate ==
    /\ [](\A n \in DOMAIN executed : executed[n] = 1)
    /\ [](status = "done"
            => /\ \A n \in DOMAIN executed :
                     Node(n).kind = "TypeClassDefinition"
                         => SeqRange(instantiationsOfDefinition(n)) \subseteq DOMAIN executed
               /\ \A n \in DOMAIN executed :
                     (/\ Node(n).kind = "TypeClassInstantiation"
                      /\ referencedDeclaration(n) # NoNode
                      /\ Node(referencedDeclaration(n)).kind = "TypeClassDefinition")
                         => referencedDeclaration(n) \in DOMAIN executed)
    /\ <>(status # "running")

\* The walk reached the instantiation first, which visited its class, which
\* visited the instantiation again; both bodies ran once and the walk ended.
C16_Witness ==
    /\ status = "done"
    /\ prog.top[1] = Id("I1")
    /\ Id("K") \in DOMAIN executed
    /\ Id("I1") \in DOMAIN executed
    /\ {Id("K"), Id("I1")} \subseteq earlyReturns

(***************************************************************************)
(* Scoped walker state.                                                    *)
(***************************************************************************)
\* A visit returns: its frame leaves the call stack and the walk goes on.
Returns ==
    /\ stack # <<>>
    /\ Top(M).op = "visit"
    /\ stack' = SubSeq(stack, 1, Len(stack) - 1)
    /\ status' = "running"

\* C17: when a visit returns, the expression context and the set of active
\* instantiations are what they were when the visit was entered.
C17_ScopedWalkerState ==
    [][Returns => /\ m_expressionContext' = Top(M).ectx
                  /\ m_activeInstantiations' = Top(M).eact]_vars

\* The walk is over after an ascription inside a function of an
\* instantiation: Type for the parameter's type, Sort for the right side of
\* the ascription, Term for the class named there, and the instantiation
\* active meanwhile; context and active set are the initial ones.
C17_Witness ==
    /\ status = "done"
    /\ prog.M1.par = "word:K"
    /\ <<"M1", 3>> \in DOMAIN annotationType
    /\ Id("K") \in DOMAIN executed
    /\ Id("I1") \in DOMAIN executed
    /\ m_expressionContext = "Term"
    /\ m_activeInstantiations = {}

(***************************************************************************)
(* The context in which definitions are entered.                           *)
(***************************************************************************)
\* C18: whenever the visit of a function definition or of a type class
\* definition is entered, the expression context is Term.
C18_DefinitionsEnteredInTerm ==
    (/\ Visiting({"FunctionDefinition", "TypeClassDefinition"})
     /\ Top(M).pc = "start")
        => m_expressionContext = "Term"

(***************************************************************************)
(* Annotations are assigned once.                                          *)
(***************************************************************************)
\* C19: no parameter list, variable declaration or expression is visited
\* when its type annotation is already set, so that the assertions on an
\* annotation not yet set hold, also in a function that refers to itself or
\* to a function that refers back to it.
C19_AnnotatedAtMostOnce ==
    (/\ Visiting({"ParameterList", "VariableDeclaration", "ElementaryTypeNameExpression",
                  "BinaryOperation", "Literal", "TupleExpression", "Identifier"})
     /\ Top(M).pc = "start")
        => ~hasType(M, Top(M).node)

====
